---- MODULE Spec2Model ----
(***************************************************************************)
(* Model of the persona creator's extraction route                         *)
(* (app/api/extract/route.ts): request validation, the documents check,    *)
(* the scoped retriever handed to the agent, the parsing of the agent's    *)
(* final text, the normalisation of the parsed payload and the insert into *)
(* role_insights.                                                          *)
(*                                                                         *)
(* Representation.                                                         *)
(*  - A JavaScript string is a sequence of atoms; an atom is either one    *)
(*    whitespace character or a maximal run of non-whitespace characters.  *)
(*    "" is <<>>, " Go " is <<" ", "Go", " ">>.                            *)
(*  - A JSON value is a record tagged by t: undefined, null, bool, num,    *)
(*    str, arr, obj.                                                       *)
(*  - The agent's final text is a sequence of lexical tokens: a fence of   *)
(*    three backticks, the word json, whitespace, prose, or the text of    *)
(*    one JSON value.                                                      *)
(***************************************************************************)
EXTENDS Integers, Sequences, FiniteSets, TLC

(***************************************************************************)
(* Bounds of the model                                                     *)
(***************************************************************************)
MaxArrLen == 2
MaxTextLen == 6
MaxRuns == 2

(***************************************************************************)
(* Program constants                                                       *)
(***************************************************************************)
BaseRetrieverK == 40
ResultLimit == 20
CheckLimit == 5

(***************************************************************************)
(* JavaScript strings                                                      *)
(***************************************************************************)
WhiteSpace == {" ", "\n"}

RECURSIVE TrimStart(_)
TrimStart(s) ==
  IF s = <<>> THEN <<>>
  ELSE IF Head(s) \in WhiteSpace THEN TrimStart(Tail(s)) ELSE s

RECURSIVE TrimEnd(_)
TrimEnd(s) ==
  IF s = <<>> THEN <<>>
  ELSE IF s[Len(s)] \in WhiteSpace THEN TrimEnd(SubSeq(s, 1, Len(s) - 1)) ELSE s

\* String.prototype.trim
trim(s) == TrimEnd(TrimStart(s))

(***************************************************************************)
(* JSON values, as JSON.parse builds them                                  *)
(***************************************************************************)
JUndefined == [t |-> "undefined"]
JNull == [t |-> "null"]
JBool(b) == [t |-> "bool", b |-> b]
JNum(n) == [t |-> "num", n |-> n]
JStr(s) == [t |-> "str", s |-> s]
JArr(a) == [t |-> "arr", a |-> a]
JObj(o) == [t |-> "obj", o |-> o]

\* value.key ; reading a property of null or undefined throws a TypeError
PropThrows(v) == v.t \in {"undefined", "null"}
Prop(v, key) ==
  IF v.t = "obj" /\ key \in DOMAIN v.o THEN v.o[key] ELSE JUndefined

\* value?.key
OptProp(v, key) == IF PropThrows(v) THEN JUndefined ELSE Prop(v, key)

\* a ?? b
Nullish(a, b) == IF a.t \in {"undefined", "null"} THEN b ELSE a

\* ToBoolean
Truthy(v) ==
  CASE v.t \in {"undefined", "null"} -> FALSE
    [] v.t = "bool" -> v.b
    [] v.t = "num" -> v.n # 0
    [] v.t = "str" -> v.s # <<>>
    [] OTHER -> TRUE

\* a || b
OrElse(a, b) == IF Truthy(a) THEN a ELSE b

\* String(item) for a value built by JSON.parse
RECURSIVE String(_)
RECURSIVE JoinComma(_)
JoinComma(a) ==
  IF a = <<>> THEN <<>>
  ELSE LET h == IF Head(a).t \in {"undefined", "null"} THEN <<>> ELSE String(Head(a))
       IN IF Len(a) = 1 THEN h ELSE h \o <<",">> \o JoinComma(Tail(a))
String(v) ==
  CASE v.t = "undefined" -> <<"undefined">>
    [] v.t = "null" -> <<"null">>
    [] v.t = "bool" -> IF v.b THEN <<"true">> ELSE <<"false">>
    [] v.t = "num" -> <<ToString(v.n)>>
    [] v.t = "str" -> v.s
    [] v.t = "arr" -> JoinComma(v.a)
    [] OTHER -> <<"[object", " ", "Object]">>

(***************************************************************************)
(* normalizedArray and validatedInsights                                   *)
(***************************************************************************)
\* .filter(Boolean) that hands the kept elements back last to first
SelectNonEmptyReversed(ss) ==
  LET kept == SelectSeq(ss, LAMBDA s : s # <<>>)
  IN [i \in 1..Len(kept) |-> kept[Len(kept) + 1 - i]]

\* .filter(Boolean) over strings: the empty string is the only falsy one
SelectNonEmpty(ss) == SelectSeq(ss, LAMBDA s : s # <<>>)

\* the conversion of one array element before .filter(Boolean), as the
\* earlier revision of the route wrote it: no trim
ElementStringUntrimmed(item) == IF item.t = "str" THEN item.s ELSE String(item)

\* the conversion of one array element before .filter(Boolean)
ElementString(item) == IF item.t = "str" THEN trim(item.s) ELSE trim(String(item))

\* the conversion without the branch that promotes a string to a list
normalizedArrayListsOnly(value) ==
  IF value.t = "arr"
    THEN SelectNonEmpty([i \in 1..Len(value.a) |-> ElementString(value.a[i])])
  ELSE <<>>

normalizedArray(value) ==
  IF value.t = "arr"
    THEN SelectNonEmpty([i \in 1..Len(value.a) |-> ElementString(value.a[i])])
  ELSE IF value.t = "str" /\ trim(value.s) # <<>>
    THEN <<trim(value.s)>>
  ELSE <<>>

NotSpecified == <<"Not", " ", "specified", " ", "in", " ", "posting">>
\* one sentinel text for every list field
ResponsibilitiesNotSpecifiedAsOthers == <<"Not", " ", "specified", " ", "in", " ", "posting">>
ResponsibilitiesNotSpecified == <<"Responsibilities", " ", "not", " ", "specified">>
UnknownRole == <<"Unknown", " ", "Role">>
DefaultSeniority == <<"mid">>
General == <<"General">>

OrDefault(arr, sentinel) == IF Len(arr) # 0 THEN arr ELSE <<sentinel>>

\* evaluating the validatedInsights literal throws exactly when insights is
\* null (JSON.parse never yields undefined)
validatedInsightsThrows(insights) == PropThrows(insights)

\* sources_analyzed copied from the payload when it carries a number
sources_analyzedFromPayload(insights, job_posting_ids) ==
  IF Prop(insights, "sources_analyzed").t = "num"
    THEN Prop(insights, "sources_analyzed").n
  ELSE Len(job_posting_ids)

\* sources_analyzed: job_posting_ids.length
sources_analyzed(insights, job_posting_ids) == Len(job_posting_ids)

validatedInsights(insights, now, job_posting_ids) ==
  [ about_section |->
      OrDefault(normalizedArray(Prop(insights, "about_section")), NotSpecified),
    responsibilities_section |->
      OrDefault(normalizedArray(Prop(insights, "responsibilities_section")), NotSpecified),
    qualifications_section |->
      OrDefault(normalizedArray(Prop(insights, "qualifications_section")), NotSpecified),
    role_title |-> OrElse(Prop(insights, "role_title"), JStr(UnknownRole)),
    seniority_level |-> OrElse(Prop(insights, "seniority_level"), JStr(DefaultSeniority)),
    industry_context |-> OrElse(Prop(insights, "industry_context"), JStr(General)),
    core_responsibilities |->
      OrDefault(normalizedArray(Prop(insights, "core_responsibilities")),
                ResponsibilitiesNotSpecified),
    required_skills |->
      [ technical |->
          OrDefault(normalizedArray(
            Nullish(OptProp(Prop(insights, "required_skills"), "technical"), JArr(<<>>))),
            NotSpecified),
        soft_skills |->
          OrDefault(normalizedArray(
            Nullish(OptProp(Prop(insights, "required_skills"), "soft_skills"), JArr(<<>>))),
            NotSpecified) ],
    tools_technologies |->
      OrDefault(normalizedArray(Prop(insights, "tools_technologies")), NotSpecified),
    key_success_metrics |->
      OrDefault(normalizedArray(Prop(insights, "key_success_metrics")), NotSpecified),
    hiring_signals |->
      OrDefault(normalizedArray(Prop(insights, "hiring_signals")), NotSpecified),
    collaboration_aspects |->
      OrDefault(normalizedArray(Prop(insights, "collaboration_aspects")), NotSpecified),
    extracted_at |-> now,
    sources_analyzed |-> sources_analyzed(insights, job_posting_ids) ]

(***************************************************************************)
(* The agent's final text and its parsing                                  *)
(***************************************************************************)
Fence == [k |-> "fence", v |-> JUndefined]
JsonWord == [k |-> "json", v |-> JUndefined]
Ws == [k |-> "ws", v |-> JUndefined]
Prose == [k |-> "prose", v |-> JUndefined]
ValueText(v) == [k |-> "value", v |-> v]

RECURSIVE StripWsStart(_)
StripWsStart(text) ==
  IF text = <<>> THEN <<>>
  ELSE IF Head(text).k = "ws" THEN StripWsStart(Tail(text)) ELSE text

RECURSIVE StripWsEnd(_)
StripWsEnd(text) ==
  IF text = <<>> THEN <<>>
  ELSE IF text[Len(text)].k = "ws" THEN StripWsEnd(SubSeq(text, 1, Len(text) - 1))
  ELSE text

\* what \s*([\s\S]*?)\s* captures between two delimiters: the leading \s* is
\* greedy and the capture is lazy, so the capture has no whitespace at
\* either end
Capture(text, from, to) == StripWsEnd(StripWsStart(SubSeq(text, from, to)))

NoMatch == [found |-> FALSE, group1 |-> <<>>]

FencesAfter(text, i) == {k \in (i + 1)..Len(text) : text[k].k = "fence"}
Least(S) == CHOOSE k \in S : \A j \in S : k <= j

\* extractedContent.match(/```json\s*([\s\S]*?)\s*```/)
TaggedStarts(text) ==
  {i \in 1..Len(text) : /\ text[i].k = "fence"
                        /\ i + 1 <= Len(text)
                        /\ text[i + 1].k = "json"
                        /\ FencesAfter(text, i + 1) # {}}
MatchTagged(text) ==
  IF TaggedStarts(text) = {} THEN NoMatch
  ELSE LET i == Least(TaggedStarts(text))
           k == Least(FencesAfter(text, i + 1))
       IN [found |-> TRUE, group1 |-> Capture(text, i + 2, k - 1)]

\* extractedContent.match(/```\s*([\s\S]*?)\s*```/)
UntaggedStarts(text) ==
  {i \in 1..Len(text) : text[i].k = "fence" /\ FencesAfter(text, i) # {}}
MatchUntagged(text) ==
  IF UntaggedStarts(text) = {} THEN NoMatch
  ELSE LET i == Least(UntaggedStarts(text))
           k == Least(FencesAfter(text, i))
       IN [found |-> TRUE, group1 |-> Capture(text, i + 1, k - 1)]

\* the lookup with the json-tagged pattern left out
jsonMatchUntaggedOnly(extractedContent) == MatchUntagged(extractedContent)

\* jsonMatch = match(tagged) || match(untagged)
jsonMatch(extractedContent) ==
  IF MatchTagged(extractedContent).found THEN MatchTagged(extractedContent)
  ELSE MatchUntagged(extractedContent)

jsonContent(extractedContent) ==
  IF jsonMatch(extractedContent).found THEN jsonMatch(extractedContent).group1
  ELSE extractedContent

\* JSON.parse: whitespace around one JSON value is allowed, anything else is
\* a SyntaxError
JSONParseOk(content) ==
  LET c == StripWsEnd(StripWsStart(content)) IN Len(c) = 1 /\ c[1].k = "value"
JSONParse(content) == StripWsEnd(StripWsStart(content))[1].v
SyntaxErrorMessage(content) ==
  IF StripWsEnd(StripWsStart(content)) = <<>> THEN "Unexpected end of JSON input"
  ELSE "Unexpected token"

(***************************************************************************)
(* The documents table and the scoped retriever                            *)
(***************************************************************************)
Undefined == "<undefined>"

Min(a, b) == IF a <= b THEN a ELSE b
Range(f) == {f[i] : i \in DOMAIN f}

\* a slice that keeps the element at index n as well
sliceInclusive(docs, n) == SubSeq(docs, 1, Min(n + 1, Len(docs)))

\* docs.slice(0, n)
slice(docs, n) == SubSeq(docs, 1, Min(n, Len(docs)))

\* owner and posting of the chunks in the documents table; the last kind is
\* a row stored without owner metadata
ChunkKinds ==
  { [user_id |-> "u1", job_posting_id |-> "d1"],
    [user_id |-> "u1", job_posting_id |-> "d2"],
    [user_id |-> "u2", job_posting_id |-> "d3"],
    [user_id |-> Undefined, job_posting_id |-> Undefined] }

Chunk(kind, i) ==
  [metadata |-> [user_id |-> kind.user_id,
                 job_posting_id |-> kind.job_posting_id,
                 chunkIndex |-> i]]

StoredChunks == {Chunk(kind, i) : kind \in ChunkKinds, i \in 1..BaseRetrieverK}

\* a filter that compares the owner only
matchesUserOnly(doc, user_id, job_posting_ids) == doc.metadata.user_id = user_id

\* the filter callback of filteredRetriever.getRelevantDocuments
matches(doc, user_id, job_posting_ids) ==
  LET docUserId == doc.metadata.user_id
      docJobId == doc.metadata.job_posting_id
      matchesUser == docUserId = user_id
      matchesJob == Len(job_posting_ids) = 0 \/ docJobId \in Range(job_posting_ids)
  IN matchesUser /\ matchesJob

\* if (filtered.length === 0)
fallbackTaken(docs, filtered) == Len(filtered) = 0

\* a retriever whose fallback hands back every candidate
returnedUnsliced(docs, filtered) ==
  IF fallbackTaken(docs, filtered) THEN docs ELSE slice(filtered, ResultLimit)

\* a retriever that returns the candidates whenever fewer than all match
returnedUnfiltered(docs, filtered) == slice(docs, ResultLimit)

returned(docs, filtered) ==
  IF fallbackTaken(docs, filtered) THEN slice(docs, ResultLimit)
  ELSE slice(filtered, ResultLimit)

NoCall == [active |-> FALSE, docs |-> <<>>, filtered |-> <<>>,
           returned |-> <<>>, warned |-> FALSE]

getRelevantDocuments(docs, user_id, job_posting_ids) ==
  LET filtered == SelectSeq(docs, LAMBDA doc : matches(doc, user_id, job_posting_ids))
  IN [active |-> TRUE, docs |-> docs, filtered |-> filtered,
      returned |-> returned(docs, filtered),
      warned |-> fallbackTaken(docs, filtered)]

\* what baseRetriever.getRelevantDocuments can answer: at most k chunks of
\* the table, in the store's relevance order; described as runs of chunks
\* of one kind
RunLens == {1, 19, 21}
Runs == [kind : ChunkKinds, len : RunLens]
RunSeqs == UNION {[1..n -> Runs] : n \in 0..MaxRuns}

RECURSIVE TotalLen(_)
TotalLen(rs) == IF rs = <<>> THEN 0 ELSE Head(rs).len + TotalLen(Tail(rs))

RECURSIVE Expand(_, _)
Expand(rs, offset) ==
  IF rs = <<>> THEN <<>>
  ELSE [i \in 1..Head(rs).len |-> Chunk(Head(rs).kind, offset + i)]
         \o Expand(Tail(rs), offset + Head(rs).len)

CandidateLists ==
  {Expand(rs, 0) : rs \in {x \in RunSeqs : TotalLen(x) <= BaseRetrieverK}}

(***************************************************************************)
(* What the agent can answer                                               *)
(***************************************************************************)
EmptyObject == JObj([key \in {} |-> JNull])

StrVals == {<<>>, <<" ">>, <<"a">>, <<" ", "a", " ">>}

ElemVals ==
  {JStr(s) : s \in StrVals}
    \cup {JNum(42), JNull, JArr(<<JStr(<<" ">>)>>), EmptyObject}

ArrVals == {JArr(a) : a \in UNION {[1..n -> ElemVals] : n \in 0..MaxArrLen}}

\* ["  Python ", "", 42]
PythonArray ==
  JArr(<<JStr(<<" ", " ", "Python", " ">>), JStr(<<>>), JNum(42)>>)

RawVals ==
  {JUndefined, JNull, JBool(TRUE), JBool(FALSE), JNum(0), JNum(42), EmptyObject}
    \cup {JStr(s) : s \in StrVals} \cup ArrVals \cup {PythonArray}

ListFields ==
  {"about_section", "responsibilities_section", "qualifications_section",
   "core_responsibilities", "tools_technologies", "key_success_metrics",
   "hiring_signals", "collaboration_aspects"}
SkillFields == {"technical", "soft_skills"}
ScalarFields == {"role_title", "seniority_level", "industry_context"}
TopFields == ListFields \cup ScalarFields \cup {"required_skills"}
TargetFields == TopFields \cup SkillFields

OtherVals == {JUndefined, JArr(<<JStr(<<"a">>)>>)}

\* an object literal; a key whose value is undefined is absent from it
ObjectOf(vals) ==
  JObj([key \in {x \in DOMAIN vals : vals[x] # JUndefined} |-> vals[key]])

\* the mapping in which target holds v and every other field holds w
Payload(target, v, w) ==
  LET skills == ObjectOf([key \in SkillFields |-> IF key = target THEN v ELSE w])
  IN ObjectOf([key \in TopFields |->
       IF key = "required_skills"
         THEN (IF target = "required_skills" THEN v ELSE skills)
         ELSE (IF key = target THEN v ELSE w)])

\* a payload that carries the two bookkeeping keys itself
StampedPayload ==
  JObj([key \in {"extracted_at", "sources_analyzed"} |->
         IF key = "extracted_at" THEN JStr(<<"1999-01-01T00:00:00.000Z">>)
         ELSE JNum(7)])

Payloads ==
  {Payload(target, v, w) : target \in TargetFields, v \in RawVals, w \in OtherVals}
    \cup {JNull, JNum(42), JBool(TRUE), JStr(<<"a">>), JArr(<<>>), StampedPayload}

SimplePayload ==
  JObj([key \in {"role_title", "tools_technologies"} |->
         IF key = "role_title" THEN JStr(<<"Engineer">>)
         ELSE JArr(<<JStr(<<"Go">>), JStr(<<" ", "Go", " ">>)>>)])

Tokens == {Fence, JsonWord, Ws, Prose, ValueText(SimplePayload)}
RichTexts == UNION {[1..n -> Tokens] : n \in 0..MaxTextLen}
AgentTexts == RichTexts \cup {<<ValueText(p)>> : p \in Payloads}

Times == {"t1", "t2"}

(***************************************************************************)
(* State                                                                   *)
(***************************************************************************)
VARIABLES
  documents,        \* the documents table (vector store)
  role_insights,    \* the role_insights table, in insertion order
  pc,               \* per request: position in POST
  body,             \* per request: the JSON body
  existingDocs,     \* per request: rows returned by the documents check
  agentInvoked,     \* per request: createReactAgent / agent.invoke reached
  retr,             \* per request: the retriever call being answered
  extractedContent, \* per request: text of the agent's last message
  parsedContent,    \* per request: the text handed to JSON.parse
  insights,         \* per request: the parsed payload
  validated,        \* per request: validatedInsights
  inserts,          \* per request: role_insights inserts issued
  response          \* per request: the response returned

\* POST /api/generate
VARIABLES
  generated_personas,   \* the generated_personas table, in insertion order
  genPc,                \* per generation request: position in POST
  genBody,              \* per generation request: the JSON body
  genRoleInsight,       \* per generation request: the row fetched
  chatgpt_instructions, \* per generation request: the ChatGPT artifact
  claude_commands,      \* per generation request: the Claude artifact
  genResponse           \* per generation request: the response returned

extractVars ==
  <<documents, pc, body, existingDocs, agentInvoked, retr, extractedContent,
    parsedContent, insights, validated, inserts, response>>

genVars ==
  <<generated_personas, genPc, genBody, genRoleInsight, chatgpt_instructions,
    claude_commands, genResponse>>

\* the other routes and the client components
VARIABLES
  exportReq,     \* per export request: body and response
  job_postings,  \* the job_postings table, in insertion order
  job_postings_id_seq, \* the last id the job_postings table handed out
  ingestReq,     \* per ingest request: position in POST, body, locals, response
  deleteReq,     \* per DELETE request: position, user_id, response
  wizard,        \* the PersonaBuilder component's state
  review         \* the InsightsReview component's state and its fetches

auxVars ==
  <<exportReq, job_postings, job_postings_id_seq, ingestReq, deleteReq, wizard,
    review>>

\* the bindings of the extraction requests
requestVars ==
  <<pc, body, existingDocs, agentInvoked, retr, extractedContent, parsedContent,
    insights, validated, inserts, response>>

vars == <<documents, role_insights, pc, body, existingDocs, agentInvoked,
          retr, extractedContent, parsedContent, insights, validated, inserts,
          response, genVars, auxVars>>

Requests == {1, 2}

NoBody == [user_id |-> Undefined, has_ids |-> FALSE, job_posting_ids |-> <<>>]
\* no agent text yet
NoText == <<[k |-> "none", v |-> JUndefined]>>
NoInsights == [none |-> TRUE]
NoResponse == [status |-> 0]

BodyUsers == {Undefined, "", "u1", "u3"}
BodyIds == {<<>>, <<"d1">>, <<"d1", "d2">>, <<"d9">>}
Bodies ==
  {[user_id |-> u, has_ids |-> TRUE, job_posting_ids |-> ids] :
     u \in BodyUsers, ids \in BodyIds}
    \cup {[user_id |-> u, has_ids |-> FALSE, job_posting_ids |-> <<>>] : u \in BodyUsers}

\* !user_id
MissingUser(b) == b.user_id \in {Undefined, ""}
\* !job_posting_ids || job_posting_ids.length === 0
MissingIds(b) == ~b.has_ids \/ Len(b.job_posting_ids) = 0

\* a documents check that never reports an owner without documents
noDocumentsNever(found) == found < 0

\* !existingDocs || existingDocs.length === 0
noDocuments(found) == found = 0

\* NextResponse.json({ error }, { status })
ErrorResponse(status, error) == [status |-> status, error |-> error]

\* the response of the outer catch block
CaughtResponse(message) ==
  [status |-> 500, error |-> message, details |-> message]

\* a parse failure left to the outer catch block
ParseFailureCaught(raw, message) == CaughtResponse(message)

ParseFailureResponse(raw, message) ==
  [status |-> 500, error |-> "Failed to parse extraction results as JSON",
   raw_content |-> raw, parse_error |-> message]

SuccessResponse(id, ins) ==
  [status |-> 200, success |-> TRUE, role_insight_id |-> id, insights |-> ins]

NoRow == [none |-> TRUE]
NoGenBody == [user_id |-> Undefined, role_insight_id |-> 0, format |-> Undefined]

\* a request slot or a component that is not in use
IdleRequest == [pc |-> "idle"]

\* no other route is being served and no component is mounted
ExportIdle == exportReq = [e \in Requests |-> IdleRequest]
IngestIdle ==
  /\ job_postings = <<>>
  /\ job_postings_id_seq = 0
  /\ ingestReq = [i \in Requests |-> IdleRequest]
  /\ deleteReq = [d \in Requests |-> IdleRequest]
ClientIdle ==
  /\ wizard = IdleRequest
  /\ review = IdleRequest
AuxIdle == ExportIdle /\ IngestIdle /\ ClientIdle

\* no generation request is being served
GenIdle ==
  /\ generated_personas = <<>>
  /\ genPc = [g \in Requests |-> "idle"]
  /\ genBody = [g \in Requests |-> NoGenBody]
  /\ genRoleInsight = [g \in Requests |-> NoRow]
  /\ chatgpt_instructions = [g \in Requests |-> JNull]
  /\ claude_commands = [g \in Requests |-> JNull]
  /\ genResponse = [g \in Requests |-> NoResponse]

InitWith(active) ==
  /\ GenIdle
  /\ AuxIdle
  /\ documents = StoredChunks
  /\ role_insights = <<>>
  /\ pc = [r \in Requests |-> IF r \in active THEN "start" ELSE "idle"]
  /\ body = [r \in Requests |-> NoBody]
  /\ existingDocs = [r \in Requests |-> 0]
  /\ agentInvoked = [r \in Requests |-> FALSE]
  /\ retr = [r \in Requests |-> NoCall]
  /\ extractedContent = [r \in Requests |-> NoText]
  /\ parsedContent = [r \in Requests |-> NoText]
  /\ insights = [r \in Requests |-> JUndefined]
  /\ validated = [r \in Requests |-> NoInsights]
  /\ inserts = [r \in Requests |-> 0]
  /\ response = [r \in Requests |-> NoResponse]

Init == InitWith({1})

(***************************************************************************)
(* POST /api/extract                                                       *)
(***************************************************************************)
\* a response that is built but not returned: the handler goes on
FinishWithoutReturn(r, resp) ==
  /\ pc' = pc
  /\ response' = [response EXCEPT ![r] = resp]
  /\ retr' = [retr EXCEPT ![r] = NoCall]

\* return NextResponse.json(...): the handler ends with this response
Finish(r, resp) ==
  /\ pc' = [pc EXCEPT ![r] = "done"]
  /\ response' = [response EXCEPT ![r] = resp]
  /\ retr' = [retr EXCEPT ![r] = NoCall]

\* req.json() and the two validations
ReceiveFrom(r, bodies) ==
  /\ UNCHANGED <<genVars, auxVars>>
  /\ pc[r] = "start"
  /\ \E b \in bodies :
       /\ body' = [body EXCEPT ![r] = b]
       /\ IF MissingUser(b)
            THEN Finish(r, ErrorResponse(400, "user_id is required"))
          ELSE IF MissingIds(b)
            THEN Finish(r, ErrorResponse(400, "job_posting_ids is required"))
          ELSE /\ pc' = [pc EXCEPT ![r] = "checkDocs"]
               /\ UNCHANGED <<response, retr>>
  /\ UNCHANGED <<documents, role_insights, existingDocs, agentInvoked,
                 extractedContent, parsedContent, insights, validated, inserts>>

Receive(r) == ReceiveFrom(r, Bodies)

\* the documents check; on success the agent is created and invoked
CheckDocuments(r) ==
  /\ UNCHANGED <<genVars, auxVars>>
  /\ pc[r] = "checkDocs"
  /\ \E checkError \in BOOLEAN :
       LET found == Min(CheckLimit,
                        Cardinality({d \in documents :
                                       d.metadata.user_id = body[r].user_id}))
       IN IF checkError
            THEN /\ Finish(r, CaughtResponse("checkError"))
                 /\ UNCHANGED <<existingDocs, agentInvoked>>
          ELSE IF noDocuments(found)
            THEN /\ Finish(r, ErrorResponse(404,
                      "No documents found for this user. Please ingest job posting first."))
                 /\ existingDocs' = [existingDocs EXCEPT ![r] = found]
                 /\ UNCHANGED agentInvoked
          ELSE /\ pc' = [pc EXCEPT ![r] = "agent"]
               /\ existingDocs' = [existingDocs EXCEPT ![r] = found]
               /\ agentInvoked' = [agentInvoked EXCEPT ![r] = TRUE]
               /\ UNCHANGED <<response, retr>>
  /\ UNCHANGED <<documents, role_insights, body, extractedContent,
                 parsedContent, insights, validated, inserts>>

\* the agent calls search_job_posting: filteredRetriever.getRelevantDocuments
RetrieverCallFrom(r, candidates) ==
  /\ UNCHANGED <<genVars, auxVars>>
  /\ pc[r] = "agent"
  /\ ~retr[r].active
  /\ \E docs \in candidates :
       retr' = [retr EXCEPT ![r] =
                  getRelevantDocuments(docs, body[r].user_id, body[r].job_posting_ids)]
  /\ UNCHANGED <<documents, role_insights, pc, body, existingDocs, agentInvoked,
                 extractedContent, parsedContent, insights, validated, inserts,
                 response>>

RetrieverCall(r) == RetrieverCallFrom(r, CandidateLists)

\* the tool call resolves: the returned list is handed to the agent, which
\* issues its tool calls one after the other
RetrieverReturn(r) ==
  /\ UNCHANGED <<genVars, auxVars>>
  /\ pc[r] = "agent"
  /\ retr[r].active
  /\ retr' = [retr EXCEPT ![r] = NoCall]
  /\ UNCHANGED <<documents, role_insights, pc, body, existingDocs, agentInvoked,
                 extractedContent, parsedContent, insights, validated,
                 inserts, response>>

\* agent.invoke rejects (provider or transport error)
AgentThrows(r) ==
  /\ UNCHANGED <<genVars, auxVars>>
  /\ pc[r] = "agent"
  /\ Finish(r, CaughtResponse("agentError"))
  /\ UNCHANGED <<documents, role_insights, body, existingDocs, agentInvoked,
                 extractedContent, parsedContent, insights, validated, inserts>>

\* agent.invoke resolves: parse the last message and build validatedInsights
AgentReturnsFrom(r, texts) ==
  /\ UNCHANGED <<genVars, auxVars>>
  /\ pc[r] = "agent"
  /\ ~retr[r].active
  /\ \E text \in texts :
       LET content == jsonContent(text)
       IN /\ extractedContent' = [extractedContent EXCEPT ![r] = text]
          /\ parsedContent' = [parsedContent EXCEPT ![r] = content]
          /\ IF ~JSONParseOk(content)
               THEN /\ Finish(r, ParseFailureResponse(text, SyntaxErrorMessage(content)))
                    /\ UNCHANGED <<insights, validated>>
             ELSE IF validatedInsightsThrows(JSONParse(content))
               THEN /\ Finish(r, CaughtResponse("TypeError"))
                    /\ insights' = [insights EXCEPT ![r] = JSONParse(content)]
                    /\ UNCHANGED validated
             ELSE /\ \E now \in Times :
                       validated' = [validated EXCEPT ![r] =
                         validatedInsights(JSONParse(content), now,
                                           body[r].job_posting_ids)]
                  /\ insights' = [insights EXCEPT ![r] = JSONParse(content)]
                  /\ pc' = [pc EXCEPT ![r] = "insert"]
                  /\ retr' = [retr EXCEPT ![r] = NoCall]
                  /\ UNCHANGED response
  /\ UNCHANGED <<documents, role_insights, body, existingDocs, agentInvoked,
                 inserts>>

AgentReturns(r) == AgentReturnsFrom(r, AgentTexts)

\* the row with two indexed columns exchanged
InsertRowSwapped(id, b, v) ==
  [id |-> id,
   user_id |-> b.user_id,
   job_posting_ids |-> b.job_posting_ids,
   role_title |-> v.industry_context,
   seniority_level |-> v.seniority_level,
   industry_context |-> v.role_title,
   insights |-> v]

\* the row passed to supabase.from("role_insights").insert
InsertRow(id, b, v) ==
  [id |-> id,
   user_id |-> b.user_id,
   job_posting_ids |-> b.job_posting_ids,
   role_title |-> v.role_title,
   seniority_level |-> v.seniority_level,
   industry_context |-> v.industry_context,
   insights |-> v]

\* an insert that reads the body and the insights from one slot shared by
\* all handlers
InsertShared(r) ==
  /\ UNCHANGED <<genVars, auxVars>>
  /\ pc[r] = "insert"
  /\ inserts' = [inserts EXCEPT ![r] = @ + 1]
  /\ \E insertError \in BOOLEAN :
       IF insertError
         THEN /\ Finish(r, CaughtResponse("insertError"))
              /\ UNCHANGED role_insights
       ELSE LET q == CHOOSE x \in Requests : pc[x] = "insert"
                roleInsight == InsertRow(Len(role_insights) + 1, body[q], validated[q])
            IN /\ role_insights' = Append(role_insights, roleInsight)
               /\ Finish(r, SuccessResponse(roleInsight.id, validated[q]))
  /\ UNCHANGED <<documents, body, existingDocs, agentInvoked,
                 extractedContent, parsedContent, insights, validated>>

\* the insert into role_insights and the final response
Insert(r) ==
  /\ UNCHANGED <<genVars, auxVars>>
  /\ pc[r] = "insert"
  /\ inserts' = [inserts EXCEPT ![r] = @ + 1]
  /\ \E insertError \in BOOLEAN :
       IF insertError
         THEN /\ Finish(r, CaughtResponse("insertError"))
              /\ UNCHANGED role_insights
       ELSE LET roleInsight == InsertRow(Len(role_insights) + 1, body[r], validated[r])
            IN /\ role_insights' = Append(role_insights, roleInsight)
               /\ Finish(r, SuccessResponse(roleInsight.id, validated[r]))
  /\ UNCHANGED <<documents, body, existingDocs, agentInvoked,
                 extractedContent, parsedContent, insights, validated>>

POST(r) ==
  \/ Receive(r)
  \/ CheckDocuments(r)
  \/ RetrieverCall(r)
  \/ RetrieverReturn(r)
  \/ AgentThrows(r)
  \/ AgentReturns(r)
  \/ Insert(r)

Next == \E r \in Requests : POST(r)

Spec == Init /\ [][Next]_vars

(***************************************************************************)
(* Properties                                                              *)
(***************************************************************************)
AgentReturned(r) == extractedContent[r] # NoText

\* a list of length >= 1 of non-empty strings without surrounding whitespace
WellFormedList(l) ==
  /\ Len(l) >= 1
  /\ \A i \in 1..Len(l) :
       /\ l[i] # <<>>
       /\ l[i][1] \notin WhiteSpace
       /\ l[i][Len(l[i])] \notin WhiteSpace

TenListFields(ins) ==
  <<ins.about_section, ins.responsibilities_section, ins.qualifications_section,
    ins.core_responsibilities, ins.required_skills.technical,
    ins.required_skills.soft_skills, ins.tools_technologies,
    ins.key_success_metrics, ins.hiring_signals, ins.collaboration_aspects>>

InScope(doc, r) ==
  /\ doc.metadata.user_id = body[r].user_id
  /\ \E i \in 1..Len(body[r].job_posting_ids) :
       body[r].job_posting_ids[i] = doc.metadata.job_posting_id

AnyInScope(docs, r) == \E i \in 1..Len(docs) : InScope(docs[i], r)

\* C2 as stated: every chunk a retriever call returns belongs to the
\* request's owner and to one of the request's postings.
C2_Original ==
  \A r \in Requests :
    retr[r].active =>
      \A i \in 1..Len(retr[r].returned) : InScope(retr[r].returned[i], r)

\* C2 amended: when at least one candidate of the store is in the request's
\* scope, every returned chunk is in scope; when none is, the chunks
\* returned are the store's candidates, none of them in scope.
C2_ScopedUnlessFallback ==
  \A r \in Requests :
    retr[r].active =>
      IF AnyInScope(retr[r].docs, r)
        THEN \A i \in 1..Len(retr[r].returned) : InScope(retr[r].returned[i], r)
        ELSE /\ \A i \in 1..Len(retr[r].returned) : ~InScope(retr[r].returned[i], r)
             /\ \A i \in 1..Len(retr[r].returned) :
                  retr[r].returned[i] = retr[r].docs[i]

\* candidates of both kinds came back and only the scoped ones were returned
C2_Witness ==
  \E r \in Requests :
    /\ retr[r].active
    /\ AnyInScope(retr[r].docs, r)
    /\ \E i \in 1..Len(retr[r].docs) : ~InScope(retr[r].docs[i], r)
    /\ Len(retr[r].returned) >= 1

\* C3: when the store returns n >= 1 candidates and none is in scope, the
\* retriever returns the first min(20, n) candidates in the store's order,
\* never the empty list, signals the degradation, and the request goes on.
C3_FallbackReturnsCandidates ==
  \A r \in Requests :
    (retr[r].active /\ Len(retr[r].docs) >= 1 /\ ~AnyInScope(retr[r].docs, r)) =>
      /\ Len(retr[r].returned) = Min(20, Len(retr[r].docs))
      /\ Len(retr[r].returned) >= 1
      /\ \A i \in 1..Len(retr[r].returned) : retr[r].returned[i] = retr[r].docs[i]
      /\ retr[r].warned
      /\ pc[r] = "agent"
      /\ response[r] = NoResponse

\* more than 20 candidates, none in scope, and 20 of them returned
C3_Witness ==
  \E r \in Requests :
    /\ retr[r].active
    /\ Len(retr[r].docs) > 20
    /\ ~AnyInScope(retr[r].docs, r)
    /\ Len(retr[r].returned) = 20
    /\ retr[r].warned

\* the candidates in scope, in the store's order
RECURSIVE ScopedOf(_, _)
ScopedOf(docs, r) ==
  IF docs = <<>> THEN <<>>
  ELSE IF InScope(Head(docs), r) THEN <<Head(docs)>> \o ScopedOf(Tail(docs), r)
  ELSE ScopedOf(Tail(docs), r)

\* C4: when at least one candidate is in scope, the retriever returns
\* exactly the candidates in scope, in the store's order, cut to the first
\* 20, and does not signal a degradation.
C4_ReturnsScopedCandidates ==
  \A r \in Requests :
    (retr[r].active /\ AnyInScope(retr[r].docs, r)) =>
      /\ retr[r].returned
           = SubSeq(ScopedOf(retr[r].docs, r), 1,
                    Min(20, Len(ScopedOf(retr[r].docs, r))))
      /\ ~retr[r].warned

\* 21 candidates in scope behind candidates of another owner: 20 returned
C4_Witness ==
  \E r \in Requests :
    /\ retr[r].active
    /\ Len(ScopedOf(retr[r].docs, r)) > 20
    /\ ~InScope(retr[r].docs[1], r)
    /\ Len(retr[r].returned) = 20
    /\ ~retr[r].warned

\* C5 as stated: when the store returns no candidate the retriever returns
\* the empty list without taking the fallback path, so the degradation
\* signal is raised only when the store returned candidates and the filter
\* removed them all.
C5_Original ==
  \A r \in Requests :
    retr[r].active =>
      /\ Len(retr[r].docs) = 0 => (retr[r].returned = <<>> /\ ~retr[r].warned)
      /\ retr[r].warned => (Len(retr[r].docs) >= 1 /\ Len(retr[r].filtered) = 0)

\* positions of the fences of the text
FencePositions(text) == {i \in 1..Len(text) : text[i] = Fence}

\* the text between two fences, the json tag after the opening fence and
\* the whitespace at both ends left out
Interior(text, open, close) ==
  LET first == IF open + 1 < close /\ text[open + 1] = JsonWord
                 THEN open + 2 ELSE open + 1
      inner == [i \in 1..(close - first) |-> text[first + i - 1]]
  IN StripWsEnd(StripWsStart(inner))

\* the text, once surrounding whitespace is dropped, is one JSON value
IsJsonText(text) ==
  \E i \in 1..Len(text) :
    /\ text[i].k = "value"
    /\ \A j \in 1..Len(text) : j # i => text[j] = Ws

\* neither the interior of a fenced block nor the whole text is JSON
Unparseable(text) ==
  /\ ~IsJsonText(text)
  /\ \A open \in FencePositions(text) : \A close \in FencePositions(text) :
       open < close => ~IsJsonText(Interior(text, open, close))

\* C6: if the agent's final text cannot be parsed as JSON, neither a fenced
\* block's interior nor the whole text, the request ends with an error
\* response carrying the raw text and the parse error message, issues no
\* insert, and the failure is that response, not an exception that reaches
\* the outer catch.
C6_ParseFailureIsReported ==
  \A r \in Requests :
    (AgentReturned(r) /\ Unparseable(extractedContent[r])) =>
      /\ pc[r] = "done"
      /\ response[r].status = 500
      /\ response[r].error = "Failed to parse extraction results as JSON"
      /\ DOMAIN response[r] = {"status", "error", "raw_content", "parse_error"}
      /\ response[r].raw_content = extractedContent[r]
      /\ response[r].parse_error \in {"Unexpected token", "Unexpected end of JSON input"}
      /\ inserts[r] = 0
      /\ validated[r] = NoInsights

\* prose around a fenced block whose interior is prose
C6_Witness ==
  \E r \in Requests :
    /\ AgentReturned(r)
    /\ extractedContent[r] = <<Prose, Fence, JsonWord, Prose, Fence>>
    /\ response[r].status = 500
    /\ response[r].raw_content = extractedContent[r]

\* C7: if the text holds one fenced block, tagged json or untagged, the
\* text handed to the JSON parser is the interior of that block whatever
\* surrounds the fences; if the text holds no fenced block it is the whole
\* text; the request ends with the parse failure exactly when that text is
\* not JSON, and otherwise the parsed payload is the value it spells.
C7_FenceInteriorIsParsed ==
  \A r \in Requests :
    AgentReturned(r) =>
      LET text == extractedContent[r]
          fences == FencePositions(text)
          expected == IF Cardinality(fences) = 2
                        THEN Interior(text, Least(fences),
                                      Least(fences \ {Least(fences)}))
                        ELSE text
      IN Cardinality(fences) <= 2 =>
           /\ parsedContent[r] = expected
           /\ IsJsonText(expected) <=>
                ~("parse_error" \in DOMAIN response[r])
           /\ IsJsonText(expected) =>
                \E i \in 1..Len(expected) : insights[r] = expected[i].v

\* a json-tagged block between two stretches of prose was parsed
C7_Witness ==
  \E r \in Requests :
    /\ extractedContent[r]
         = <<Prose, Fence, JsonWord, ValueText(SimplePayload), Fence, Prose>>
    /\ insights[r] = SimplePayload
    /\ pc[r] = "insert"

\* the error text of a response, "" for a response without one
ErrorOf(resp) == IF "error" \in DOMAIN resp THEN resp.error ELSE ""

EarlyErrors ==
  {"user_id is required", "job_posting_ids is required", "checkError",
   "No documents found for this user. Please ingest job posting first.",
   "agentError", "Failed to parse extraction results as JSON"}

\* C8: a request issues the role_insights insert at most once, and not at
\* all on a path that ends before persistence; the table holds one row per
\* successful response.
C8_InsertAtMostOnce ==
  /\ \A r \in Requests :
       /\ inserts[r] <= 1
       /\ pc[r] \in {"start", "checkDocs", "agent", "insert"} => inserts[r] = 0
       /\ (pc[r] = "done" /\ ErrorOf(response[r]) \in EarlyErrors) => inserts[r] = 0
  /\ Len(role_insights) = Cardinality({r \in Requests : response[r].status = 200})
  /\ Len(role_insights) <= Cardinality({r \in Requests : inserts[r] = 1})

\* a request that ended on a parse failure without an insert
C8_Witness ==
  \E r \in Requests :
    /\ pc[r] = "done"
    /\ ErrorOf(response[r]) = "Failed to parse extraction results as JSON"
    /\ inserts[r] = 0
    /\ role_insights = <<>>

\* C9: a success response is returned only after a successful insert; its
\* insights and id are those of the stored record, whose indexed columns
\* equal the same-named fields of its insights; a rejected insert ends the
\* request with an error response.
C9_SuccessMeansPersisted ==
  \A r \in Requests :
    /\ response[r].status = 200 =>
         /\ inserts[r] = 1
         /\ response[r].role_insight_id \in 1..Len(role_insights)
         /\ LET row == role_insights[response[r].role_insight_id]
            IN /\ row.id = response[r].role_insight_id
               /\ row.insights = response[r].insights
               /\ row.insights = validated[r]
               /\ row.role_title = row.insights.role_title
               /\ row.seniority_level = row.insights.seniority_level
               /\ row.industry_context = row.insights.industry_context
               /\ row.user_id = body[r].user_id
    /\ (pc[r] = "done" /\ inserts[r] = 1 /\ response[r].status # 200) =>
         /\ response[r].status = 500
         /\ ErrorOf(response[r]) = "insertError"
         /\ "role_insight_id" \notin DOMAIN response[r]

\* a stored record whose role title and industry context differ
C9_Witness ==
  \E r \in Requests :
    /\ response[r].status = 200
    /\ role_insights[response[r].role_insight_id].role_title = JStr(<<"a">>)
    /\ role_insights[response[r].role_insight_id].industry_context = JStr(General)

OwnerHasNoChunks(r) ==
  \A d \in documents : d.metadata.user_id # body[r].user_id

\* C10: a request whose owner has no chunk in the store never creates or
\* invokes the agent, never has a retriever call made for it (the retriever
\* is called only inside an invoked agent) and persists nothing; once its
\* input is accepted and the documents check has answered, it ends with the
\* no-documents error.
C10_NoDocumentsFailsFast ==
  \A r \in Requests :
    /\ retr[r].active => (agentInvoked[r] /\ pc[r] = "agent")
    /\ (pc[r] # "start" /\ OwnerHasNoChunks(r)) =>
         /\ ~agentInvoked[r]
         /\ ~retr[r].active
         /\ ~AgentReturned(r)
         /\ inserts[r] = 0
         /\ pc[r] \in {"checkDocs", "done"}
         /\ (pc[r] = "done" /\ ErrorOf(response[r])
               \notin {"user_id is required", "job_posting_ids is required", "checkError"})
              => /\ response[r].status = 404
                 /\ ErrorOf(response[r])
                      = "No documents found for this user. Please ingest job posting first."
    /\ response[r].status = 404 =>
         (~agentInvoked[r] /\ ~retr[r].active /\ ~AgentReturned(r) /\ inserts[r] = 0)

\* the owner without chunks was answered with the no-documents error
C10_Witness ==
  \E r \in Requests :
    /\ body[r].user_id = "u3"
    /\ OwnerHasNoChunks(r)
    /\ response[r].status = 404
    /\ ~agentInvoked[r]

(***************************************************************************)
(* Normalisation of the parsed payload                                     *)
(***************************************************************************)
Normalized(r) == validated[r] # NoInsights

SeniorityLevels ==
  {JStr(<<"entry">>), JStr(<<"mid">>), JStr(<<"senior">>), JStr(<<"lead">>),
   JStr(<<"executive">>)}

\* C11 as stated: in every persisted insight record seniority_level is one of
\* entry, mid, senior, lead, executive, and an absent or invalid raw value is
\* replaced by mid.
C11_Original ==
  /\ \A n \in 1..Len(role_insights) :
       /\ role_insights[n].seniority_level \in SeniorityLevels
       /\ role_insights[n].insights.seniority_level \in SeniorityLevels
  /\ \A r \in Requests :
       (Normalized(r) /\ Prop(insights[r], "seniority_level") \notin SeniorityLevels)
         => validated[r].seniority_level = JStr(<<"mid">>)

NonEmptyString(v) == v.t = "str" /\ v.s # <<>>

\* C12 as stated: the normalized role_title is the raw role_title when that
\* is a non-empty string and "Unknown Role" in every other case, likewise
\* industry_context with "General"; both output scalars are always strings.
C12_Original ==
  \A r \in Requests :
    Normalized(r) =>
      /\ validated[r].role_title =
           (IF NonEmptyString(Prop(insights[r], "role_title"))
              THEN Prop(insights[r], "role_title")
            ELSE JStr(<<"Unknown", " ", "Role">>))
      /\ validated[r].industry_context =
           (IF NonEmptyString(Prop(insights[r], "industry_context"))
              THEN Prop(insights[r], "industry_context")
            ELSE JStr(<<"General">>))
      /\ validated[r].role_title.t = "str"
      /\ validated[r].industry_context.t = "str"

\* the raw value of the i-th list field, in the order of TenListFields
RawField(ins, i) ==
  CASE i = 1 -> Prop(ins, "about_section")
    [] i = 2 -> Prop(ins, "responsibilities_section")
    [] i = 3 -> Prop(ins, "qualifications_section")
    [] i = 4 -> Prop(ins, "core_responsibilities")
    [] i = 5 -> OptProp(Prop(ins, "required_skills"), "technical")
    [] i = 6 -> OptProp(Prop(ins, "required_skills"), "soft_skills")
    [] i = 7 -> Prop(ins, "tools_technologies")
    [] i = 8 -> Prop(ins, "key_success_metrics")
    [] i = 9 -> Prop(ins, "hiring_signals")
    [] OTHER -> Prop(ins, "collaboration_aspects")

\* string form, trimmed, empties dropped, in order, duplicates kept
RECURSIVE ExpectedList(_)
ExpectedList(a) ==
  IF a = <<>> THEN <<>>
  ELSE LET s == TrimEnd(TrimStart(String(Head(a))))
       IN (IF s = <<>> THEN <<>> ELSE <<s>>) \o ExpectedList(Tail(a))

GoArray == JArr(<<JStr(<<"Go">>), JStr(<<" ", "Go", " ">>)>>)

SentinelOf(i) ==
  IF i = 4 THEN << <<"Responsibilities", " ", "not", " ", "specified">> >>
  ELSE << <<"Not", " ", "specified", " ", "in", " ", "posting">> >>

\* C14 as stated: a list field whose raw value is a non-empty string
\* normalizes to the singleton list of that string trimmed; a raw value that
\* is neither a list nor a non-empty string gets the field's sentinel list.
C14_Original ==
  \A r \in Requests :
    Normalized(r) =>
      \A i \in 1..10 :
        LET raw == RawField(insights[r], i)
            out == TenListFields(validated[r])[i]
        IN /\ NonEmptyString(raw) => out = <<TrimEnd(TrimStart(raw.s))>>
           /\ (raw.t # "arr" /\ ~NonEmptyString(raw)) => out = SentinelOf(i)

\* a string that has a character other than whitespace
NonBlankString(v) == v.t = "str" /\ \E k \in 1..Len(v.s) : v.s[k] \notin WhiteSpace

\* C14: a list field whose raw value is a string with a non-whitespace
\* character normalizes to the singleton list of that string trimmed; a raw
\* value that is neither a list nor such a string (absent, null, number,
\* boolean, object, empty or whitespace-only string) gets the field's
\* sentinel list.
C14_StringPromotedUnlessBlank ==
  \A r \in Requests :
    Normalized(r) =>
      \A i \in 1..10 :
        LET raw == RawField(insights[r], i)
            out == TenListFields(validated[r])[i]
        IN /\ NonBlankString(raw) => out = <<TrimEnd(TrimStart(raw.s))>>
           /\ raw = JStr(<<" ", "a", " ">>) => out = << <<"a">> >>
           /\ (raw.t # "arr" /\ ~NonBlankString(raw)) => out = SentinelOf(i)

\* a padded string was promoted and an absent field got its sentinel
C14_Witness ==
  \E r \in Requests :
    /\ Normalized(r)
    /\ RawField(insights[r], 1) = JStr(<<" ", "a", " ">>)
    /\ validated[r].about_section = << <<"a">> >>
    /\ RawField(insights[r], 4) = JUndefined
    /\ validated[r].core_responsibilities = SentinelOf(4)
    /\ response[r].status = 200

\* the value normalizes to the empty list
NormalizesToEmpty(raw) ==
  \/ raw.t = "arr" /\ ExpectedList(raw.a) = <<>>
  \/ raw.t # "arr" /\ ~NonBlankString(raw)

\* C15: whenever a list field normalizes to the empty list,
\* core_responsibilities receives exactly ["Responsibilities not specified"]
\* and each of the other nine list fields exactly
\* ["Not specified in posting"]; no field receives the other's sentinel.
C15_SentinelDistinction ==
  \A r \in Requests :
    Normalized(r) =>
      /\ \A i \in 1..10 :
           NormalizesToEmpty(RawField(insights[r], i))
             => TenListFields(validated[r])[i] = SentinelOf(i)
      /\ validated[r].core_responsibilities # SentinelOf(1)
      /\ \A i \in (1..10) \ {4} : TenListFields(validated[r])[i] # SentinelOf(4)

\* the empty mapping was normalized: all ten sentinels at once
C15_Witness ==
  \E r \in Requests :
    /\ Normalized(r)
    /\ insights[r] = EmptyObject
    /\ \A i \in 1..10 : TenListFields(validated[r])[i] = SentinelOf(i)
    /\ validated[r].core_responsibilities
         = << <<"Responsibilities", " ", "not", " ", "specified">> >>
    /\ validated[r].hiring_signals
         = << <<"Not", " ", "specified", " ", "in", " ", "posting">> >>

\* C16: in every insight produced by normalization sources_analyzed is the
\* number of document ids of the request and extracted_at is a reading of
\* the clock; neither is taken from a same-named key of the parsed payload.
C16_BookkeepingNotFromPayload ==
  /\ \A r \in Requests :
       Normalized(r) =>
         /\ validated[r].sources_analyzed = Len(body[r].job_posting_ids)
         /\ validated[r].extracted_at \in Times
  /\ \A n \in 1..Len(role_insights) :
       /\ role_insights[n].insights.sources_analyzed
            = Len(role_insights[n].job_posting_ids)
       /\ role_insights[n].insights.extracted_at \in Times

\* a payload carrying both keys was normalized and persisted
C16_Witness ==
  \E r \in Requests :
    /\ insights[r] = StampedPayload
    /\ Prop(insights[r], "sources_analyzed") = JNum(7)
    /\ response[r].status = 200
    /\ Len(body[r].job_posting_ids) = 2
    /\ role_insights[response[r].role_insight_id].insights.sources_analyzed = 2
    /\ role_insights[response[r].role_insight_id].insights.extracted_at = "t2"

(***************************************************************************)
(* Scope of a request and bounds of a retriever call                       *)
(***************************************************************************)
\* C17 as stated: a request whose document id set is empty is accepted and
\* treated as unscoped, its retriever calls filtering by owner only.
C17_Original ==
  \A r \in Requests :
    (~MissingUser(body[r]) /\ body[r].has_ids /\ body[r].job_posting_ids = <<>>)
      => /\ pc[r] = "done" => response[r].status # 400
         /\ retr[r].active =>
              retr[r].filtered
                = SelectSeq(retr[r].docs,
                            LAMBDA d : d.metadata.user_id = body[r].user_id)

\* a is b with some elements left out, order kept
RECURSIVE IsSubseq(_, _)
IsSubseq(a, b) ==
  IF a = <<>> THEN TRUE
  ELSE IF b = <<>> THEN FALSE
  ELSE IF Head(a) = Head(b) THEN IsSubseq(Tail(a), Tail(b))
  ELSE IsSubseq(a, Tail(b))

\* C18: for every retriever invocation, whichever branch is taken, the
\* returned list has at most 20 chunks and is an order-preserving
\* subsequence of the at most 40 candidates the store returned, and the
\* invocation changes no stored chunk and no stored record.
C18_ReturnBounded ==
  [][\A r \in Requests :
       retr'[r].active =>
         /\ Len(retr'[r].docs) <= 40
         /\ Len(retr'[r].returned) <= 20
         /\ IsSubseq(retr'[r].returned, retr'[r].docs)
         /\ documents' = documents
         /\ role_insights' = role_insights]_vars

\* 40 candidates, the first 19 out of scope: the 20 returned are not a prefix
C18_Witness ==
  \E r \in Requests :
    /\ retr[r].active
    /\ Len(retr[r].docs) = 40
    /\ Len(retr[r].filtered) = 21
    /\ Len(retr[r].returned) = 20
    /\ retr[r].returned[1] = retr[r].docs[20]
    /\ documents = StoredChunks

(***************************************************************************)
(* The persona renderers.  A rendered text is the record of the values     *)
(* interpolated into the fixed template, each as the string it prints.     *)
(***************************************************************************)
\* list.join(sep) over strings
RECURSIVE join(_, _)
join(list, sep) ==
  IF list = <<>> THEN <<>>
  ELSE IF Len(list) = 1 THEN Head(list)
  ELSE Head(list) \o sep \o join(Tail(list), sep)

\* s.split(ch)[0]
RECURSIVE splitFirst(_, _)
splitFirst(s, ch) ==
  IF s = <<>> \/ Head(s) = ch THEN <<>>
  ELSE <<Head(s)>> \o splitFirst(Tail(s), ch)

\* toLowerCase over the words the model writes with capitals
LowerWord(w) ==
  CASE w = "Engineer" -> "engineer"
    [] w = "Unknown" -> "unknown"
    [] w = "Role" -> "role"
    [] w = "General" -> "general"
    [] w = "Responsibilities" -> "responsibilities"
    [] w = "Go" -> "go"
    [] w = "Python" -> "python"
    [] OTHER -> w
toLowerCase(s) == [i \in 1..Len(s) |-> LowerWord(s[i])]

\* s.replace(/\s+/g, '-')
RECURSIVE replaceSpaces(_)
replaceSpaces(s) ==
  IF s = <<>> THEN <<>>
  ELSE IF Head(s) \in WhiteSpace
    THEN <<"-">> \o replaceSpaces(TrimStart(s))
  ELSE <<Head(s)>> \o replaceSpaces(Tail(s))

\* list.map(x => `- ${x}`).join('\n')
Bullets(list) ==
  join([i \in 1..Len(list) |-> <<"-", " ">> \o list[i]], <<"\n">>)

\* list[0] || fallback, for a list of strings
FirstOr(list, fallback) ==
  IF Len(list) >= 1 /\ list[1] # <<>> THEN list[1] ELSE fallback

\* list.slice(from, to).join(sep) || fallback
JoinedOr(list, from, to, sep, fallback) ==
  LET text == join(SubSeq(list, from + 1, Min(to, Len(list))), sep)
  IN IF text # <<>> THEN text ELSE fallback

CommaSpace == <<",", " ">>
And == <<" ", "and", " ">>

\* generateChatGPTInstructions(insights)
generateChatGPTInstructions(ins) ==
  LET technicalSkills == join(slice(ins.required_skills.technical, 8), CommaSpace)
      softSkills == join(slice(ins.required_skills.soft_skills, 5), CommaSpace)
      topTools == join(slice(ins.tools_technologies, 6), CommaSpace)
      topResponsibilities == slice(ins.core_responsibilities, 6)
      topSignals == slice(ins.hiring_signals, 4)
      topMetrics == slice(ins.key_success_metrics, 4)
  IN [ seniority_level |-> String(ins.seniority_level),
       role_title |-> String(ins.role_title),
       industry_context |-> String(ins.industry_context),
       about |->
         IF Len(ins.about_section) # 0
           THEN join(ins.about_section, <<"\n", "\n">>)
         ELSE <<"-", " ">> \o NotSpecified,
       responsibilities |->
         IF Len(ins.responsibilities_section) # 0
           THEN Bullets(ins.responsibilities_section)
         ELSE <<"-", " ">> \o NotSpecified,
       qualifications |->
         IF Len(ins.qualifications_section) # 0
           THEN Bullets(ins.qualifications_section)
         ELSE <<"-", " ">> \o NotSpecified,
       technicalSkills |-> technicalSkills,
       softSkills |-> softSkills,
       topTools |-> topTools,
       topResponsibilities |-> Bullets(topResponsibilities),
       topMetrics |->
         IF Len(topMetrics) > 0 THEN Bullets(topMetrics)
         ELSE <<"-", " ", "Deliver", " ", "high-quality", " ", "results">>,
       topSignals |-> Bullets(topSignals),
       collaboration |->
         IF Len(ins.collaboration_aspects) > 0
           THEN Bullets(ins.collaboration_aspects)
         ELSE <<"-", " ", "Work", " ", "cross-functionally">>,
       firstTool |-> splitFirst(topTools, ","),
       approach |-> IF Len(ins.tools_technologies) > 0 THEN topTools ELSE <<>> ]

\* the three scalars as a template prints them
Scalars(ins) ==
  [ role_title |-> String(ins.role_title),
    seniority_level |-> String(ins.seniority_level),
    industry_context |-> String(ins.industry_context) ]

generateAnalysisCommand(ins) ==
  [ type |-> "analysis", scalars |-> Scalars(ins),
    tool |-> FirstOr(ins.tools_technologies, <<"tools">>),
    skill |-> FirstOr(ins.required_skills.technical, <<"domain", " ", "expertise">>),
    metric |-> FirstOr(ins.key_success_metrics, <<"key", " ", "metrics">>),
    collaboration |-> FirstOr(ins.collaboration_aspects, <<"relevant", " ", "teams">>) ]

generateStrategyCommand(ins) ==
  [ type |-> "strategy", scalars |-> Scalars(ins),
    parties |-> JoinedOr(ins.collaboration_aspects, 0, 2, CommaSpace,
                         <<"relevant", " ", "parties">>),
    skill |-> FirstOr(ins.required_skills.technical, <<"technical">>),
    metric |-> FirstOr(ins.key_success_metrics, <<"success", " ", "criteria">>),
    signal |-> FirstOr(ins.hiring_signals, <<"professional", " ", "standards">>),
    tool |-> FirstOr(ins.tools_technologies, <<"resources">>),
    tools |-> join(SubSeq(ins.tools_technologies, 1,
                          Min(3, Len(ins.tools_technologies))), CommaSpace) ]

generateReviewCommand(ins) ==
  [ type |-> "review", scalars |-> Scalars(ins),
    skill |-> FirstOr(ins.required_skills.technical, <<"technical", " ", "quality">>),
    tool |-> FirstOr(ins.tools_technologies, <<"best", " ", "practices">>),
    signal |-> FirstOr(ins.hiring_signals, <<"industry", " ", "best", " ", "practices">>),
    soft |-> FirstOr(ins.required_skills.soft_skills, <<"quality">>),
    metric |-> FirstOr(ins.key_success_metrics, <<"key", " ", "objectives">>),
    collaboration |-> FirstOr(ins.collaboration_aspects,
                              <<"cross-functional", " ", "impacts">>) ]

generateCommunicationCommand(ins) ==
  [ type |-> "communication", scalars |-> Scalars(ins),
    collaboration |-> FirstOr(ins.collaboration_aspects, <<"stakeholder", " ", "needs">>),
    skill |-> FirstOr(ins.required_skills.technical, <<"context">>),
    soft |-> FirstOr(ins.required_skills.soft_skills, <<"professional">>),
    tool |-> FirstOr(ins.tools_technologies, <<"references">>),
    signal |-> FirstOr(ins.hiring_signals, <<"professional", " ", "standards">>) ]

generateDecisionCommand(ins) ==
  [ type |-> "decision", scalars |-> Scalars(ins),
    tool |-> FirstOr(ins.tools_technologies, <<"available", " ", "resources">>),
    metric |-> FirstOr(ins.key_success_metrics, <<"key", " ", "metrics">>),
    skill |-> FirstOr(ins.required_skills.technical, <<"technical">>),
    collaboration |-> FirstOr(ins.collaboration_aspects, <<"stakeholder">>) ]

generateProblemSolvingCommand(ins) ==
  [ type |-> "problem-solving", scalars |-> Scalars(ins),
    metric |-> FirstOr(ins.key_success_metrics, <<"objectives">>),
    parties |-> JoinedOr(ins.collaboration_aspects, 0, 2, CommaSpace,
                         <<"affected", " ", "parties">>),
    tool |-> FirstOr(ins.tools_technologies, <<"available", " ", "tools">>),
    skill |-> FirstOr(ins.required_skills.technical, <<"technical">>),
    soft |-> FirstOr(ins.required_skills.soft_skills, <<"problem-solving">>),
    toolHeading |-> FirstOr(ins.tools_technologies, <<"Tools">>) ]

generateToolCommand(ins) ==
  [ type |-> "tool", scalars |-> Scalars(ins),
    primaryTool |-> FirstOr(ins.tools_technologies, <<"primary", " ", "tool">>),
    metric |-> FirstOr(ins.key_success_metrics, <<"efficiency">>),
    skill |-> FirstOr(ins.required_skills.technical, <<"technical">>),
    otherTools |-> JoinedOr(ins.tools_technologies, 1, 3, And, <<"tools">>),
    secondTool |->
      IF Len(ins.tools_technologies) >= 2
        THEN ins.tools_technologies[2]
      ELSE <<"other", " ", "tools">> ]

generateCollaborationCommand(ins) ==
  [ type |-> "collaboration", scalars |-> Scalars(ins),
    primaryCollaboration |->
      FirstOr(ins.collaboration_aspects, <<"cross-functional", " ", "collaboration">>),
    soft |-> FirstOr(ins.required_skills.soft_skills, <<"communication">>),
    tool |-> FirstOr(ins.tools_technologies, <<"appropriate", " ", "tools">>),
    softSkills |-> JoinedOr(ins.required_skills.soft_skills, 0, 2, And,
                            <<"interpersonal", " ", "skills">>),
    toolHeading |-> FirstOr(ins.tools_technologies, <<"Tools", " ", "used">>) ]

generateGenericCommand(ins) ==
  [ type |-> "generic", scalars |-> Scalars(ins),
    skill |-> FirstOr(ins.required_skills.technical, <<"professional">>) ]

\* templates[category.type] || generateGenericCommand
generateCommandFile(category, ins) ==
  CASE category.type = "analysis" -> generateAnalysisCommand(ins)
    [] category.type = "strategy" -> generateStrategyCommand(ins)
    [] category.type = "review" -> generateReviewCommand(ins)
    [] category.type = "communication" -> generateCommunicationCommand(ins)
    [] category.type = "decision" -> generateDecisionCommand(ins)
    [] category.type = "problem-solving" -> generateProblemSolvingCommand(ins)
    [] category.type = "tool" -> generateToolCommand(ins)
    [] category.type = "collaboration" -> generateCollaborationCommand(ins)
    [] OTHER -> generateGenericCommand(ins)

\* TypeError: x.toLowerCase / x.split is not a function
IsString(v) == v.t = "str"

Category(slug, name, description, type) ==
  [slug |-> slug, name |-> name, description |-> description, type |-> type]

\* insights.role_title.toLowerCase() throws unless role_title is a string
generateCommandCategoriesThrows(ins) == ~IsString(ins.role_title)

generateCommandCategories(ins) ==
  LET s == Scalars(ins)
      first == splitFirst(FirstOr(ins.core_responsibilities, <<>>), " ")
      fixed ==
        << Category(<<"analyze-">> \o replaceSpaces(toLowerCase(ins.role_title.s)),
                    <<"Analyze", " ">> \o (IF first # <<>> THEN first ELSE <<"Work">>),
                    s.role_title, "analysis"),
           Category(<<"strategic-planning">>, <<"Strategic", " ", "Planning">>,
                    s.industry_context, "strategy"),
           Category(<<"professional-review">>, <<"Professional", " ", "Review">>,
                    s.role_title, "review"),
           Category(<<"draft-communication">>, <<"Draft", " ", "Communication">>,
                    s.role_title, "communication"),
           Category(<<"decision-framework">>, <<"Decision", " ", "Framework">>,
                    s.seniority_level, "decision"),
           Category(<<"solve-challenge">>, <<"Solve", " ", "Challenge">>,
                    s.role_title, "problem-solving") >>
      tool ==
        IF Len(ins.tools_technologies) > 0
          THEN << Category(<<"tool-guidance">>,
                           ins.tools_technologies[1] \o <<" ", "Guidance">>,
                           ins.tools_technologies[1], "tool") >>
        ELSE <<>>
      collaboration ==
        IF Len(ins.collaboration_aspects) > 0
          THEN << Category(<<"collaboration-guidance">>,
                           <<"Collaboration", " ", "Guidance">>,
                           ins.collaboration_aspects[1], "collaboration") >>
        ELSE <<>>
  IN fixed \o tool \o collaboration

NoError == "<none>"

\* the TypeError generateClaudeCommandSuite ends with, if any: role_title is
\* lower-cased in generateCommandCategories before anything is rendered,
\* industry_context is split in the usage examples
generateClaudeCommandSuiteError(ins) ==
  IF generateCommandCategoriesThrows(ins)
    THEN "insights.role_title.toLowerCase is not a function"
  ELSE IF ~IsString(ins.industry_context)
    THEN "insights.industry_context.split is not a function"
  ELSE NoError

\* generateClaudeCommandSuite(insights), called when the clock reads now
generateClaudeCommandSuite(ins, now) ==
  LET technicalSkills == slice(ins.required_skills.technical, 8)
      softSkills == slice(ins.required_skills.soft_skills, 5)
      topTools == slice(ins.tools_technologies, 6)
      topResponsibilities == slice(ins.core_responsibilities, 8)
      topSignals == slice(ins.hiring_signals, 4)
      commandCategories == generateCommandCategories(ins)
  IN [ scalars |-> Scalars(ins),
       coreExpertise |-> join(slice(technicalSkills, 3), CommaSpace),
       commandCategories |-> commandCategories,
       commands |-> [i \in 1..Len(commandCategories) |->
                       generateCommandFile(commandCategories[i], ins)],
       technicalSkills |-> join(technicalSkills, CommaSpace),
       softSkills |-> join(softSkills, CommaSpace),
       topTools |-> join(topTools, CommaSpace),
       topSignals |-> Bullets(topSignals),
       metrics |-> Bullets(ins.key_success_metrics),
       examples |->
         << <<"analyze-">> \o replaceSpaces(toLowerCase(ins.role_title.s)),
            <<"review-">> \o toLowerCase(splitFirst(topResponsibilities[1], " ")),
            <<"strategy-">> \o toLowerCase(splitFirst(ins.industry_context.s, " ")) >>,
       firstTool |-> IF Len(topTools) >= 1 THEN topTools[1] ELSE <<"undefined">>,
       collaboration |->
         FirstOr(ins.collaboration_aspects,
                 <<"cross-functional", " ", "collaboration">>),
       toolGuidance |-> [i \in 1..Min(3, Len(topTools)) |->
                           topTools[i] \o <<":">> \o String(ins.role_title)],
       generated |-> now ]

(***************************************************************************)
(* POST /api/generate                                                      *)
(***************************************************************************)
\* scalar values an agent answer can carry, all of them in RawVals
GenScalarVals ==
  {JUndefined, JStr(<<"a">>), JStr(<<" ", "a", " ">>), JNum(42), JBool(TRUE),
   JArr(<<>>), EmptyObject}

\* agent answers whose normalisation is stored before generation starts
GenPayloads ==
  {Payload(target, v, JUndefined) : target \in ScalarFields, v \in GenScalarVals}
    \cup {SimplePayload}

\* a row of role_insights as the extraction route inserts it
StoredRow(id, user_id, payload) ==
  InsertRow(id,
            [user_id |-> user_id, has_ids |-> TRUE, job_posting_ids |-> <<"d1">>],
            validatedInsights(payload, "t1", <<"d1">>))

GenUsers == {Undefined, "u1", "u2"}
\* 0 stands for a body without role_insight_id; 9 is the id of no row
GenIds == {0, 1, 2, 9}
GenFormats == {Undefined, "chatgpt", "claude", "both", "pdf"}
GenBodies ==
  {[user_id |-> u, role_insight_id |-> id, format |-> f] :
     u \in GenUsers, id \in GenIds, f \in GenFormats}

\* the bodies request g can send: the first any body, the second a valid one
\* that asks for the Claude suite
BodiesOf(g) ==
  IF g = 1 THEN GenBodies
  ELSE {b \in GenBodies : /\ b.user_id # Undefined
                          /\ b.role_insight_id \in {1, 9}
                          /\ b.format \in {Undefined, "claude"}}

\* the destructuring without its default
FormatNoDefault(b) == b.format

\* const { format = "both" } = body
Format(b) == IF b.format = Undefined THEN "both" ELSE b.format

\* !user_id || !role_insight_id
MissingGen(b) == b.user_id = Undefined \/ b.role_insight_id = 0

\* the query without its owner condition
MatchingRowsById(b) ==
  SelectSeq(role_insights, LAMBDA row : row.id = b.role_insight_id)

\* .eq("id", role_insight_id).eq("user_id", user_id)
MatchingRows(b) ==
  SelectSeq(role_insights,
            LAMBDA row : row.id = b.role_insight_id /\ row.user_id = b.user_id)

GenFinish(g, resp) ==
  /\ genPc' = [genPc EXCEPT ![g] = "done"]
  /\ genResponse' = [genResponse EXCEPT ![g] = resp]

\* no extraction request is being served
ExtractIdle ==
  /\ pc = [r \in Requests |-> "idle"]
  /\ body = [r \in Requests |-> NoBody]
  /\ existingDocs = [r \in Requests |-> 0]
  /\ agentInvoked = [r \in Requests |-> FALSE]
  /\ retr = [r \in Requests |-> NoCall]
  /\ extractedContent = [r \in Requests |-> NoText]
  /\ parsedContent = [r \in Requests |-> NoText]
  /\ insights = [r \in Requests |-> JUndefined]
  /\ validated = [r \in Requests |-> NoInsights]
  /\ inserts = [r \in Requests |-> 0]
  /\ response = [r \in Requests |-> NoResponse]

\* two stored insights, the first the normalisation of one of payloads, and
\* the generation requests of active about to arrive
GenStart(payloads, active) ==
  /\ \E p \in payloads :
       role_insights = <<StoredRow(1, "u1", p), StoredRow(2, "u2", SimplePayload)>>
  /\ generated_personas = <<>>
  /\ genPc = [g \in Requests |-> IF g \in active THEN "start" ELSE "idle"]
  /\ genBody = [g \in Requests |-> NoGenBody]
  /\ genRoleInsight = [g \in Requests |-> NoRow]
  /\ chatgpt_instructions = [g \in Requests |-> JNull]
  /\ claude_commands = [g \in Requests |-> JNull]
  /\ genResponse = [g \in Requests |-> NoResponse]

GenInit ==
  /\ AuxIdle
  /\ documents = StoredChunks
  /\ ExtractIdle
  /\ GenStart(GenPayloads, Requests)

\* req.json() and the validation
GenReceive(g) ==
  /\ genPc[g] = "start"
  /\ \E b \in BodiesOf(g) :
       /\ genBody' = [genBody EXCEPT ![g] = b]
       /\ IF MissingGen(b)
            THEN GenFinish(g, ErrorResponse(400, "user_id and role_insight_id are required"))
          ELSE /\ genPc' = [genPc EXCEPT ![g] = "fetch"]
               /\ UNCHANGED genResponse
  /\ UNCHANGED <<generated_personas, genRoleInsight, chatgpt_instructions,
                 claude_commands, role_insights, extractVars, auxVars>>

\* the role_insights query; .single() reports an error unless one row matches
GenFetch(g) ==
  /\ genPc[g] = "fetch"
  /\ \E error \in BOOLEAN :
       IF error \/ Len(MatchingRows(genBody[g])) # 1
         THEN /\ GenFinish(g, ErrorResponse(404, "Role insight not found"))
              /\ UNCHANGED genRoleInsight
       ELSE /\ genRoleInsight' = [genRoleInsight EXCEPT ![g] = MatchingRows(genBody[g])[1]]
            /\ genPc' = [genPc EXCEPT ![g] = "render"]
            /\ UNCHANGED genResponse
  /\ UNCHANGED <<generated_personas, genBody, chatgpt_instructions,
                 claude_commands, role_insights, extractVars, auxVars>>

\* the two renderer calls, in program order
GenRender(g) ==
  /\ genPc[g] = "render"
  /\ LET ins == genRoleInsight[g].insights
         format == Format(genBody[g])
     IN /\ chatgpt_instructions' =
             [chatgpt_instructions EXCEPT ![g] =
                IF format \in {"chatgpt", "both"}
                  THEN generateChatGPTInstructions(ins) ELSE JNull]
        /\ IF format \in {"claude", "both"}
             THEN IF generateClaudeCommandSuiteError(ins) # NoError
                    THEN /\ GenFinish(g, [status |-> 500,
                                          error |-> generateClaudeCommandSuiteError(ins)])
                         /\ UNCHANGED claude_commands
                  ELSE /\ \E now \in Times :
                            claude_commands' =
                              [claude_commands EXCEPT ![g] =
                                 generateClaudeCommandSuite(ins, now)]
                       /\ genPc' = [genPc EXCEPT ![g] = "insert"]
                       /\ UNCHANGED genResponse
           ELSE /\ genPc' = [genPc EXCEPT ![g] = "insert"]
                /\ UNCHANGED <<claude_commands, genResponse>>
  /\ UNCHANGED <<generated_personas, genBody, genRoleInsight, role_insights,
                 extractVars, auxVars>>

\* the row passed to supabase.from("generated_personas").insert
PersonaRow(id, g) ==
  [ id |-> id,
    user_id |-> genBody[g].user_id,
    role_insight_id |-> genBody[g].role_insight_id,
    role_title |-> genRoleInsight[g].insights.role_title,
    format |-> Format(genBody[g]),
    chatgpt_instructions |-> chatgpt_instructions[g],
    claude_commands |-> claude_commands[g] ]

\* the insert into generated_personas and the final response
GenInsert(g) ==
  /\ genPc[g] = "insert"
  /\ \E insertError \in BOOLEAN :
       IF insertError
         THEN /\ GenFinish(g, [status |-> 500, error |-> "insertError"])
              /\ UNCHANGED generated_personas
       ELSE LET persona == PersonaRow(Len(generated_personas) + 1, g)
            IN /\ generated_personas' = Append(generated_personas, persona)
               /\ \E now \in Times :
                    GenFinish(g,
                      [ status |-> 200, success |-> TRUE, persona_id |-> persona.id,
                        chatgpt_instructions |-> chatgpt_instructions[g],
                        claude_commands |-> claude_commands[g],
                        metadata |->
                          [ role_title |-> genRoleInsight[g].insights.role_title,
                            format |-> Format(genBody[g]),
                            generated_at |-> now ] ])
  /\ UNCHANGED <<genBody, genRoleInsight, chatgpt_instructions, claude_commands,
                 role_insights, extractVars, auxVars>>

GeneratePOST(g) ==
  \/ GenReceive(g)
  \/ GenFetch(g)
  \/ GenRender(g)
  \/ GenInsert(g)

GenNext == \E g \in Requests : GeneratePOST(g)

GenerateSpec == GenInit /\ [][GenNext]_vars

(***************************************************************************)
(* Rendering                                                               *)
(***************************************************************************)
Fetched(g) == genRoleInsight[g] # NoRow

\* C19 as stated: two calls of the renderers on an identical insight, at any
\* two points in time, yield identical ChatGPT text and identical Claude
\* text.
C19_Original ==
  \A g, h \in Requests :
    (Fetched(g) /\ Fetched(h)
       /\ genRoleInsight[g].insights = genRoleInsight[h].insights)
      => /\ (chatgpt_instructions[g] # JNull /\ chatgpt_instructions[h] # JNull)
              => chatgpt_instructions[g] = chatgpt_instructions[h]
         /\ (claude_commands[g] # JNull /\ claude_commands[h] # JNull)
              => claude_commands[g] = claude_commands[h]

\* C20 as stated: for every insight record the extraction request can
\* persist both renderers complete and return a string, so a generation
\* request on a stored insight never errors because of the insight's
\* content.
C20_Original ==
  \A g \in Requests :
    /\ (Fetched(g) /\ genPc[g] = "done")
         => \/ genResponse[g].status = 200
            \/ ErrorOf(genResponse[g]) = "insertError"
    /\ (Fetched(g) /\ genPc[g] = "insert")
         => /\ Format(genBody[g]) \in {"chatgpt", "both"}
                 => chatgpt_instructions[g] # JNull
            /\ Format(genBody[g]) \in {"claude", "both"}
                 => claude_commands[g] # JNull

(***************************************************************************)
(* Generation requests                                                     *)
(***************************************************************************)
\* C21: in a successful generation request the ChatGPT artifact is non-null
\* exactly when the requested mode is chatgpt or both, the Claude artifact
\* exactly when it is claude or both, an omitted mode counts as both, and the
\* response metadata carries the stored insight's role_title.
C21_ArtifactsFollowMode ==
  \A g \in Requests :
    genResponse[g].status = 200 =>
      LET mode == IF genBody[g].format = Undefined THEN "both" ELSE genBody[g].format
      IN /\ (genResponse[g].chatgpt_instructions # JNull) <=> (mode \in {"chatgpt", "both"})
         /\ (genResponse[g].claude_commands # JNull) <=> (mode \in {"claude", "both"})
         /\ genResponse[g].metadata.role_title
              = role_insights[genBody[g].role_insight_id].insights.role_title
         /\ genResponse[g].metadata.format = mode

\* a request without a mode succeeded with both artifacts
C21_Witness ==
  \E g \in Requests :
    /\ genResponse[g].status = 200
    /\ genBody[g].format = Undefined
    /\ genResponse[g].chatgpt_instructions # JNull
    /\ genResponse[g].claude_commands # JNull
    /\ genResponse[g].metadata.role_title = JStr(<<"a">>)

(***************************************************************************)
(* POST /api/export                                                        *)
(***************************************************************************)
\* 0 stands for a body without persona_id; 9 is the id of no row
ExportIds == {0, 1, 9}
ExportFormats == {Undefined, "chatgpt", "claude", "json", "pdf"}
ExportBodies ==
  {[user_id |-> u, persona_id |-> id, export_format |-> f] :
     u \in GenUsers, id \in ExportIds, f \in ExportFormats}

\* !user_id || !persona_id || !export_format
MissingExport(b) ==
  b.user_id = Undefined \/ b.persona_id = 0 \/ b.export_format = Undefined

\* .eq("id", persona_id).eq("user_id", user_id)
MatchingPersonas(b) ==
  SelectSeq(generated_personas,
            LAMBDA row : row.id = b.persona_id /\ row.user_id = b.user_id)

\* persona.role_title.replace(/\s+/g, '-').toLowerCase() + suffix
Filename(persona, suffix) ==
  toLowerCase(replaceSpaces(persona.role_title.s)) \o <<suffix>>

\* the response for the persona found
ExportResponse(persona, export_format) ==
  CASE export_format = "chatgpt" ->
         IF ~IsString(persona.role_title)
           THEN [status |-> 500,
                 error |-> "persona.role_title.replace is not a function"]
         ELSE [status |-> 200, body |-> persona.chatgpt_instructions,
               filename |-> Filename(persona, "-chatgpt-instructions.md")]
    [] export_format = "claude" ->
         IF ~IsString(persona.role_title)
           THEN [status |-> 500,
                 error |-> "persona.role_title.replace is not a function"]
         ELSE [status |-> 200, body |-> persona.claude_commands,
               filename |-> Filename(persona, "-claude-commands.md")]
    [] export_format = "json" ->
         [status |-> 200, role_title |-> persona.role_title,
          chatgpt_instructions |-> persona.chatgpt_instructions,
          claude_commands |-> persona.claude_commands]
    [] OTHER -> ErrorResponse(400, "Invalid export_format")

\* the whole handler: it reads shared data once, in the persona query
ExportPOST(e) ==
  /\ exportReq[e].pc = "start"
  /\ \E b \in ExportBodies, error \in BOOLEAN :
       exportReq' = [exportReq EXCEPT ![e] =
         [pc |-> "done", body |-> b,
          response |->
            IF MissingExport(b)
              THEN ErrorResponse(400, "user_id, persona_id, and export_format are required")
            ELSE IF error \/ Len(MatchingPersonas(b)) # 1
              THEN ErrorResponse(404, "Persona not found")
            ELSE ExportResponse(MatchingPersonas(b)[1], b.export_format)]]
  /\ UNCHANGED <<role_insights, genVars, extractVars, job_postings,
                 job_postings_id_seq, ingestReq, deleteReq, wizard, review>>

\* stored insights whose personas are exported
PersonaPayloads == {SimplePayload, Payload("role_title", JNum(42), JUndefined)}

PersonaInit ==
  /\ documents = StoredChunks
  /\ ExtractIdle
  /\ GenStart(PersonaPayloads, {1})
  /\ exportReq = [e \in Requests |-> IF e = 1 THEN [pc |-> "start"] ELSE IdleRequest]
  /\ IngestIdle
  /\ ClientIdle

PersonaNext ==
  \/ \E g \in Requests : GeneratePOST(g)
  \/ \E e \in Requests : ExportPOST(e)

PersonaSpec == PersonaInit /\ [][PersonaNext]_vars

\* a role_insights record with this id exists and belongs to this user
OwnsInsight(user_id, id) ==
  \E n \in 1..Len(role_insights) :
    role_insights[n].id = id /\ role_insights[n].user_id = user_id

\* a generated_personas record with this id exists and belongs to this user
OwnsPersona(user_id, id) ==
  \E n \in 1..Len(generated_personas) :
    generated_personas[n].id = id /\ generated_personas[n].user_id = user_id

\* C26: a generation request renders and persists a persona only if a
\* role_insights record with its role_insight_id exists and belongs to its
\* user_id; otherwise it ends with the not-found error, no renderer is
\* called and no generated_personas row is inserted.  The export of a stored
\* persona is gated by the same condition on the persona.
C26_OwnershipGates ==
  /\ \A g \in Requests :
       LET b == genBody[g]
       IN /\ (Fetched(g) \/ chatgpt_instructions[g] # JNull
                \/ claude_commands[g] # JNull \/ genResponse[g].status = 200)
               => OwnsInsight(b.user_id, b.role_insight_id)
          /\ (genPc[g] \in {"render", "insert", "done"} /\ ~MissingGen(b)
                /\ ~OwnsInsight(b.user_id, b.role_insight_id))
               => /\ genPc[g] = "done"
                  /\ genResponse[g] = [status |-> 404, error |-> "Role insight not found"]
                  /\ chatgpt_instructions[g] = JNull
                  /\ claude_commands[g] = JNull
  /\ \A n \in 1..Len(generated_personas) :
       OwnsInsight(generated_personas[n].user_id, generated_personas[n].role_insight_id)
  /\ \A e \in Requests :
       exportReq[e].pc = "done" =>
         LET b == exportReq[e].body
             resp == exportReq[e].response
         IN /\ resp.status = 200 => OwnsPersona(b.user_id, b.persona_id)
            /\ (~MissingExport(b) /\ ~OwnsPersona(b.user_id, b.persona_id))
                 => resp = [status |-> 404, error |-> "Persona not found"]
            /\ \A n \in 1..Len(generated_personas) :
                 (generated_personas[n].user_id # b.user_id /\ resp.status = 200)
                   => b.persona_id # generated_personas[n].id

\* the owner of insight 2 was refused insight 1, and the persona made from
\* insight 2 was refused to the other user
C26_Witness ==
  /\ Len(generated_personas) = 1
  /\ generated_personas[1].user_id = "u2"
  /\ exportReq[1].pc = "done"
  /\ exportReq[1].body.user_id = "u1"
  /\ exportReq[1].body.persona_id = 1
  /\ exportReq[1].body.export_format = "json"
  /\ exportReq[1].response.status = 404

(***************************************************************************)
(* Two extraction requests in flight at once                               *)
(***************************************************************************)
ConcurrentBodies ==
  { [user_id |-> "u1", has_ids |-> TRUE, job_posting_ids |-> <<"d1">>],
    [user_id |-> "u2", has_ids |-> TRUE, job_posting_ids |-> <<"d3">>],
    [user_id |-> "u3", has_ids |-> TRUE, job_posting_ids |-> <<"d9">>] }

ConcurrentCandidates ==
  { <<>>,
    Expand(<<[kind |-> [user_id |-> "u1", job_posting_id |-> "d1"], len |-> 1],
             [kind |-> [user_id |-> "u2", job_posting_id |-> "d3"], len |-> 1]>>, 0),
    Expand(<<[kind |-> [user_id |-> "u1", job_posting_id |-> "d2"], len |-> 1]>>, 0) }

ConcurrentTexts ==
  {<<ValueText(SimplePayload)>>, <<ValueText(StampedPayload)>>, <<Prose>>}

ConcurrentInit == InitWith(Requests)

ConcurrentPOST(r) ==
  \/ ReceiveFrom(r, ConcurrentBodies)
  \/ CheckDocuments(r)
  \/ RetrieverCallFrom(r, ConcurrentCandidates)
  \/ RetrieverReturn(r)
  \/ AgentThrows(r)
  \/ AgentReturnsFrom(r, ConcurrentTexts)
  \/ Insert(r)

ConcurrentNext == \E r \in Requests : ConcurrentPOST(r)

ConcurrentSpec == ConcurrentInit /\ [][ConcurrentNext]_vars

\* everything one running handler holds
LocalsOf(r) ==
  <<pc[r], body[r], existingDocs[r], agentInvoked[r], retr[r],
    extractedContent[r], parsedContent[r], insights[r], validated[r],
    inserts[r], response[r]>>

\* the retriever of r filters with r's own ids, and what r persisted and
\* answered was computed from r's own body and agent output
OwnValuesOnly(r) ==
  /\ retr[r].active =>
       retr[r].filtered =
         SelectSeq(retr[r].docs,
                   LAMBDA doc : /\ doc.metadata.user_id = body[r].user_id
                                /\ doc.metadata.job_posting_id
                                      \in Range(body[r].job_posting_ids))
  /\ validated[r] # NoInsights =>
       /\ JSONParseOk(jsonContent(extractedContent[r]))
       /\ \E now \in Times :
            validated[r] =
              validatedInsights(JSONParse(jsonContent(extractedContent[r])), now,
                                body[r].job_posting_ids)
  /\ (pc[r] = "done" /\ response[r].status = 200) =>
       \E n \in 1..Len(role_insights) :
         /\ role_insights[n].id = response[r].role_insight_id
         /\ role_insights[n].user_id = body[r].user_id
         /\ role_insights[n].job_posting_ids = body[r].job_posting_ids
         /\ role_insights[n].insights = validated[r]
         /\ response[r].insights = validated[r]

C22_State ==
  /\ \A r \in Requests : OwnValuesOnly(r)
  /\ \A r, q \in Requests :
       (r # q /\ pc[r] = "done" /\ pc[q] = "done"
          /\ response[r].status = 200 /\ response[q].status = 200)
         => response[r].role_insight_id # response[q].role_insight_id
  /\ \A n, m \in 1..Len(role_insights) :
       role_insights[n].id = role_insights[m].id => n = m

C22_Step ==
  /\ \A r, q \in Requests :
       (r # q /\ LocalsOf(r)' # LocalsOf(r)) => LocalsOf(q)' = LocalsOf(q)
  /\ Len(role_insights') >= Len(role_insights)
  /\ SubSeq(role_insights', 1, Len(role_insights)) = role_insights

\* C22: two extraction requests in flight at once are independent: each
\* retriever filters with its own request's user_id and job_posting_ids,
\* each persisted insight is computed from its own request's agent output
\* and body, no step of one request changes a value held by the other or a
\* row already stored, and two successful requests leave two distinct
\* role_insights records.
C22_RequestsIndependent == []C22_State /\ [][C22_Step]_vars

\* both requests succeeded, interleaved, for different users with different
\* agent outputs
C22_Witness ==
  /\ pc[1] = "done" /\ pc[2] = "done"
  /\ response[1].status = 200 /\ response[2].status = 200
  /\ body[1].user_id = "u1" /\ body[2].user_id = "u2"
  /\ extractedContent[1] # extractedContent[2]
  /\ response[1].role_insight_id = 2
  /\ response[2].role_insight_id = 1

(***************************************************************************)
(* Parsed values and fenced blocks                                         *)
(***************************************************************************)
\* C23: whenever the agent's final text parses as JSON, whatever the parsed
\* value is, the request does not fail before the persistence step:
\* normalisation yields a record and the insert is attempted.
C23_Original ==
  \A r \in Requests :
    (AgentReturned(r) /\ JSONParseOk(parsedContent[r])) =>
      /\ validated[r] # NoInsights
      /\ pc[r] = "insert" \/ inserts[r] = 1

\* C24: when the text holds more than one fenced block, the block whose
\* interior is parsed is the first fenced block in text order, whatever its
\* tag; a later fence is never chosen over an earlier one.
C24_Original ==
  \A r \in Requests :
    AgentReturned(r) =>
      LET text == extractedContent[r]
          fences == FencePositions(text)
          open == Least(fences)
          close == Least(fences \ {open})
      IN Cardinality(fences) >= 4 =>
           parsedContent[r] = Interior(text, open, close)

(***************************************************************************)
(* POST and DELETE /api/ingest                                             *)
(***************************************************************************)
\* what the text splitter makes of the raw content: the chunks' lines
Requirements == <<"Requirements:">>
Intro == <<"we build things", "Requirements">>
Plain == <<"we build things">>
PageContents == {Requirements, Intro, Plain}

\* the capture of headingPattern on a trimmed line, or NoHeading
NoHeading == "<no heading>"
HeadingOf(line) ==
  CASE line = "Requirements:" -> "Requirements"
    [] line = "Requirements" -> "Requirements"
    [] OTHER -> NoHeading

deriveSectionTitle(lines) ==
  IF Len(lines) = 0 THEN "General"
  ELSE LET firstSix == slice(lines, 6)
           headings == {i \in 1..Len(firstSix) : HeadingOf(firstSix[i]) # NoHeading}
       IN IF headings # {} THEN HeadingOf(firstSix[Least(headings)])
          ELSE lines[1]

\* a content or url field of the body: absent, the empty string, a string
\* of whitespace, or a text the splitter cuts into these chunks
NoField == [kind |-> "undefined", chunks |-> <<>>]
EmptyString == [kind |-> "empty", chunks |-> <<>>]
BlankString == [kind |-> "blank", chunks |-> <<>>]
Text(chunks) == [kind |-> "text", chunks |-> chunks]
IngestTexts == {Text(<<Requirements>>), Text(<<Intro, Plain>>)}
IngestContents == {NoField, EmptyString, BlankString} \cup IngestTexts

\* the url field; a url that is present names a page
IngestUrls == {NoField, Text(<<Plain>>)}
\* what CheerioWebBaseLoader.load gives for a url: it throws, or the joined
\* page content is blank, or it is a text
LoadFails == [kind |-> "throws", chunks |-> <<>>]
LoadOutcomes == {LoadFails, BlankString, Text(<<Plain>>)}

\* !x for a string field
Falsy(field) == field.kind \in {"undefined", "empty"}
\* !rawContent.trim()
TrimsToEmpty(field) == field.kind \in {"undefined", "empty", "blank"}

\* the metadata object of the body (default {})
NoMetadata == [key \in {} |-> 0]
IngestMetadata ==
  { NoMetadata,
    [company |-> "acme"],
    [user_id |-> "u2"],
    [job_posting_id |-> 99],
    [chunkIndex |-> 7, totalChunks |-> 1] }

IngestUsers == {Undefined, "u1"}
SourceTypes == {"text", "url", "pdf"}
IngestBodies ==
  [user_id : IngestUsers, source_type : SourceTypes, content : IngestContents,
   url : IngestUrls, metadata : IngestMetadata]

\* {...a, ...b}: the keys of both, b's value where both have the key
Spread(a, b) ==
  [key \in DOMAIN a \cup DOMAIN b |-> IF key \in DOMAIN b THEN b[key] ELSE a[key]]

\* the metadata object of one enriched chunk
enrichedMetadata(b, jobPostingId, index, total, now, pageContent) ==
  Spread([user_id |-> b.user_id,
          job_posting_id |-> jobPostingId,
          source_type |-> b.source_type,
          chunkIndex |-> index,
          totalChunks |-> total,
          ingestedAt |-> now,
          section_title |-> deriveSectionTitle(pageContent)],
         b.metadata)

\* chunks.map((chunk, index) => new Document(...)); index counts from 0
enrichedChunks(b, jobPostingId, chunks, now) ==
  [n \in 1..Len(chunks) |->
     [pageContent |-> chunks[n],
      metadata |-> enrichedMetadata(b, jobPostingId, n - 1, Len(chunks), now,
                                    chunks[n])]]

JobPostingRow(id, b, rawContent) ==
  [id |-> id, user_id |-> b.user_id, source_type |-> b.source_type,
   source_url |-> b.url, raw_content |-> rawContent, metadata |-> b.metadata]

\* data stored before the requests of this specification: one posting with
\* one chunk for each of two users
StoredPosting(id, user_id) ==
  JobPostingRow(id, [user_id |-> user_id, source_type |-> "text",
                     url |-> NoField, metadata |-> NoMetadata],
                Text(<<Plain>>))
StoredDocument(id, user_id) ==
  enrichedChunks([user_id |-> user_id, source_type |-> "text",
                  metadata |-> NoMetadata], id, <<Plain>>, "t1")[1]

IngestFinish(i, resp) ==
  ingestReq' = [ingestReq EXCEPT ![i] = [@ EXCEPT !.pc = "done", !.response = resp]]

\* req.json(), the validations and the loading of the content
IngestReceiveFrom(i, bodies) ==
  /\ ingestReq[i].pc = "start"
  /\ \E b \in bodies, loaded \in LoadOutcomes :
       LET req == [pc |-> "insertJob", body |-> b, rawContent |-> NoField,
                   jobPostingId |-> 0, stored |-> <<>>, response |-> NoResponse]
           fail(resp) == ingestReq' = [ingestReq EXCEPT ![i] =
                                        [req EXCEPT !.pc = "done", !.response = resp]]
           rawContent == IF b.source_type = "text" THEN b.content ELSE loaded
       IN IF b.user_id = Undefined
            THEN fail(ErrorResponse(400, "user_id is required"))
          ELSE IF b.source_type = "text" /\ Falsy(b.content)
            THEN fail(ErrorResponse(400, "content is required for text type"))
          ELSE IF b.source_type = "url" /\ Falsy(b.url)
            THEN fail(ErrorResponse(400, "url is required for url type"))
          ELSE IF b.source_type = "url" /\ loaded = LoadFails
            THEN fail(CaughtResponse("Failed to load URL"))
          ELSE IF b.source_type \notin {"text", "url"}
            THEN fail(ErrorResponse(400, "Invalid source_type. Must be 'text' or 'url'"))
          ELSE IF TrimsToEmpty(rawContent)
            THEN fail(ErrorResponse(400, "No content to process"))
          ELSE ingestReq' = [ingestReq EXCEPT ![i] =
                               [req EXCEPT !.rawContent = rawContent]]
  /\ UNCHANGED <<documents, job_postings, job_postings_id_seq, deleteReq>>
  /\ UNCHANGED <<role_insights, requestVars, genVars, exportReq, wizard, review>>

IngestReceive(i) == IngestReceiveFrom(i, IngestBodies)

\* the insert into job_postings
IngestInsertJob(i) ==
  /\ ingestReq[i].pc = "insertJob"
  /\ \E jobError \in BOOLEAN :
       IF jobError
         THEN /\ IngestFinish(i, CaughtResponse("jobError"))
              /\ UNCHANGED <<job_postings, job_postings_id_seq>>
       ELSE LET id == job_postings_id_seq + 1
            IN /\ job_postings_id_seq' = id
               /\ job_postings' = Append(job_postings,
                                         JobPostingRow(id, ingestReq[i].body,
                                                       ingestReq[i].rawContent))
               /\ ingestReq' = [ingestReq EXCEPT ![i] =
                                  [@ EXCEPT !.pc = "addDocuments", !.jobPostingId = id]]
  /\ UNCHANGED <<documents, deleteReq>>
  /\ UNCHANGED <<role_insights, requestVars, genVars, exportReq, wizard, review>>

IngestSuccess(jobPostingId, chunks) ==
  [status |-> 200, success |-> TRUE, job_posting_id |-> jobPostingId,
   chunks_created |-> Len(chunks)]

\* the split, the enrichment and vectorStore.addDocuments
IngestAddDocuments(i) ==
  /\ ingestReq[i].pc = "addDocuments"
  /\ \E storeError \in BOOLEAN, now \in Times :
       LET req == ingestReq[i]
           chunks == req.rawContent.chunks
           enriched == enrichedChunks(req.body, req.jobPostingId, chunks, now)
       IN IF storeError
            THEN /\ IngestFinish(i, CaughtResponse("storeError"))
                 /\ UNCHANGED documents
          ELSE /\ documents' = documents \cup Range(enriched)
               /\ ingestReq' = [ingestReq EXCEPT ![i] =
                    [@ EXCEPT !.pc = "done", !.stored = enriched,
                              !.response = IngestSuccess(req.jobPostingId, chunks)]]
  /\ UNCHANGED <<job_postings, job_postings_id_seq, deleteReq>>
  /\ UNCHANGED <<role_insights, requestVars, genVars, exportReq, wizard, review>>

IngestPOST(i) ==
  \/ IngestReceive(i)
  \/ IngestInsertJob(i)
  \/ IngestAddDocuments(i)

DeleteUsers == {Undefined, "u1", "u2"}

DeleteFinish(d, resp) ==
  deleteReq' = [deleteReq EXCEPT ![d] = [@ EXCEPT !.pc = "done", !.response = resp]]

\* the user_id of the query string and its validation; before records the
\* tables as the request found them
DeleteReceive(d) ==
  /\ deleteReq[d].pc = "start"
  /\ \E user_id \in DeleteUsers :
       LET req == [pc |-> "documents", user_id |-> user_id,
                   before |-> [documents |-> documents, job_postings |-> job_postings],
                   response |-> NoResponse]
       IN IF user_id = Undefined
            THEN deleteReq' = [deleteReq EXCEPT ![d] =
                   [req EXCEPT !.pc = "done",
                               !.response = ErrorResponse(400, "user_id is required")]]
          ELSE deleteReq' = [deleteReq EXCEPT ![d] = req]
  /\ UNCHANGED <<documents, job_postings, job_postings_id_seq, ingestReq>>
  /\ UNCHANGED <<role_insights, requestVars, genVars, exportReq, wizard, review>>

\* delete from documents where metadata->>user_id = user_id
DeleteDocuments(d) ==
  /\ deleteReq[d].pc = "documents"
  /\ \E docsError \in BOOLEAN :
       IF docsError
         THEN /\ DeleteFinish(d, [status |-> 500, error |-> "docsError"])
              /\ UNCHANGED documents
       ELSE /\ documents' = {doc \in documents :
                               doc.metadata.user_id # deleteReq[d].user_id}
            /\ deleteReq' = [deleteReq EXCEPT ![d] = [@ EXCEPT !.pc = "job_postings"]]
  /\ UNCHANGED <<job_postings, job_postings_id_seq, ingestReq>>
  /\ UNCHANGED <<role_insights, requestVars, genVars, exportReq, wizard, review>>

\* delete from job_postings where user_id = user_id
DeleteJobPostings(d) ==
  /\ deleteReq[d].pc = "job_postings"
  /\ \E jobsError \in BOOLEAN :
       IF jobsError
         THEN /\ DeleteFinish(d, [status |-> 500, error |-> "jobsError"])
              /\ UNCHANGED job_postings
       ELSE /\ job_postings' = SelectSeq(job_postings,
                                 LAMBDA row : row.user_id # deleteReq[d].user_id)
            /\ DeleteFinish(d, [status |-> 200, success |-> TRUE,
                                message |-> "All data deleted successfully"])
  /\ UNCHANGED <<documents, job_postings_id_seq, ingestReq>>
  /\ UNCHANGED <<role_insights, requestVars, genVars, exportReq, wizard, review>>

DELETE(d) ==
  \/ DeleteReceive(d)
  \/ DeleteDocuments(d)
  \/ DeleteJobPostings(d)

IngestInit ==
  /\ GenIdle
  /\ ExportIdle
  /\ ClientIdle
  /\ ExtractIdle
  /\ role_insights = <<>>
  /\ documents = {StoredDocument(1, "u1"), StoredDocument(2, "u2")}
  /\ job_postings = <<StoredPosting(1, "u1"), StoredPosting(2, "u2")>>
  /\ job_postings_id_seq = 2
  /\ ingestReq = [i \in Requests |-> IF i = 1 THEN [pc |-> "start"] ELSE IdleRequest]
  /\ deleteReq = [d \in Requests |-> IF d = 1 THEN [pc |-> "start"] ELSE IdleRequest]

IngestNext ==
  \/ \E i \in Requests : IngestPOST(i)
  \/ \E d \in Requests : DELETE(d)

IngestSpec == IngestInit /\ [][IngestNext]_vars

(***************************************************************************)
(* The wizard: PersonaBuilder, JobPostingInput, InsightsReview             *)
(***************************************************************************)
MaxPostings == 1
MaxExtractions == 2

\* null for an id held in component state
NullId == 0

\* response.ok
Ok(resp) == resp.status >= 200 /\ resp.status <= 299

\* what a rejected fetch (or a response.json() that throws) is caught as:
\* an exception, no response
FetchError == [status |-> 0, message |-> "Failed to fetch"]

\* useState initial values of InsightsReview
ReviewMounted ==
  [pc |-> "mounted", isExtracting |-> TRUE, insights |-> NoInsights,
   error |-> NoResponse, roleInsightId |-> NullId, inFlight |-> {}]

\* useState initial values of PersonaBuilder and of the JobPostingInput it
\* renders
WizardMounted ==
  [pc |-> "mounted", step |-> "input", userId |-> "u1", jobPostingId |-> NullId,
   roleInsightId |-> NullId, insights |-> NoInsights,
   isLoading |-> FALSE, error |-> NoResponse]

\* which of its four returns InsightsReview renders
ReviewView(rv) ==
  IF rv.isExtracting THEN "loading"
  ELSE IF rv.error # NoResponse THEN "error"
  ELSE IF rv.insights = NoInsights THEN "nothing"
  ELSE "insights"

\* the wizard renders InsightsReview
ReviewRendered == wizard.step = "review" /\ wizard.jobPostingId # NullId

\* a Retry button that is rendered in the loading view as well
RetryAvailableWhileLoading(rv) == ReviewView(rv) \in {"loading", "error"}

\* the Retry Extraction button is rendered
RetryAvailable(rv) == ReviewView(rv) = "error"

\* the Back / Go Back button is rendered
BackAvailable(rv) == ReviewView(rv) \in {"error", "insights"}

\* the Continue button is rendered and enabled
ContinueAvailable(rv) == ReviewView(rv) = "insights" /\ rv.roleInsightId # NullId

\* a request slot no fetch of the component is waiting on
FreeSlot(r) == r \notin review.inFlight /\ pc[r] \in {"idle", "done"}

\* the fetch of extractInsights: a new request reaches the extract route
FetchExtract(r, user_id, job_posting_id) ==
  /\ pc' = [pc EXCEPT ![r] = "start"]
  /\ body' = [body EXCEPT ![r] = [user_id |-> user_id, has_ids |-> TRUE,
                                  job_posting_ids |-> <<job_posting_id>>]]
  /\ existingDocs' = [existingDocs EXCEPT ![r] = 0]
  /\ agentInvoked' = [agentInvoked EXCEPT ![r] = FALSE]
  /\ retr' = [retr EXCEPT ![r] = NoCall]
  /\ extractedContent' = [extractedContent EXCEPT ![r] = NoText]
  /\ parsedContent' = [parsedContent EXCEPT ![r] = NoText]
  /\ insights' = [insights EXCEPT ![r] = JUndefined]
  /\ validated' = [validated EXCEPT ![r] = NoInsights]
  /\ inserts' = [inserts EXCEPT ![r] = 0]
  /\ response' = [response EXCEPT ![r] = NoResponse]

\* extractInsights up to its first await
extractInsights(rv, r) ==
  [rv EXCEPT !.isExtracting = TRUE, !.error = NoResponse,
             !.inFlight = @ \cup {r}]

\* extractInsights from the response on: try, catch and finally
settled(rv, r, resp) ==
  IF Ok(resp)
    THEN [rv EXCEPT !.roleInsightId = resp.role_insight_id,
                    !.insights = resp.insights,
                    !.isExtracting = FALSE, !.inFlight = @ \ {r}]
  ELSE [rv EXCEPT !.error = resp, !.isExtracting = FALSE, !.inFlight = @ \ {r}]

\* the bounds on the postings submitted and the extractions started
MayExtract == Len(role_insights) < MaxExtractions

\* what the user can put into JobPostingInput with the button enabled
InputBodies ==
  {[user_id |-> wizard.userId, source_type |-> "text", content |-> text,
    url |-> NoField, metadata |-> NoMetadata] : text \in {Text(<<Requirements>>)}}
    \cup {[user_id |-> wizard.userId, source_type |-> "url", content |-> NoField,
           url |-> Text(<<Plain>>), metadata |-> NoMetadata]}

\* JobPostingInput.handleSubmit up to its first await
SubmitJobPosting ==
  /\ wizard.pc = "mounted"
  /\ wizard.step = "input"
  /\ ~wizard.isLoading
  /\ job_postings_id_seq < MaxPostings
  /\ \E b \in InputBodies :
       ingestReq' = [ingestReq EXCEPT ![1] = [pc |-> "start", body |-> b]]
  /\ wizard' = [wizard EXCEPT !.isLoading = TRUE, !.error = NoResponse]
  /\ UNCHANGED <<documents, job_postings, job_postings_id_seq, deleteReq, review>>
  /\ UNCHANGED <<role_insights, requestVars, genVars, exportReq>>

\* the ingest route serving the wizard's request
WizardIngestPOST ==
  \/ IngestReceiveFrom(1, {ingestReq[1].body})
  \/ IngestInsertJob(1)
  \/ IngestAddDocuments(1)

\* handleSubmit from the response on; on success PersonaBuilder's onSuccess
\* moves to the review step, where InsightsReview mounts and its effect
\* starts the first extraction
IngestSettles ==
  /\ wizard.pc = "mounted"
  /\ wizard.isLoading
  /\ ingestReq[1].pc = "done"
  /\ ingestReq' = [ingestReq EXCEPT ![1] = IdleRequest]
  /\ \E rejected \in BOOLEAN :
       LET resp == ingestReq[1].response
       IN IF ~rejected /\ Ok(resp)
            THEN /\ MayExtract
                 /\ wizard' = [wizard EXCEPT !.jobPostingId = resp.job_posting_id,
                                             !.step = "review",
                                             !.isLoading = FALSE]
                 /\ \E r \in Requests :
                      /\ pc[r] \in {"idle", "done"}
                      /\ \A q \in Requests : pc[q] \in {"idle", "done"} => r <= q
                      /\ FetchExtract(r, wizard.userId, resp.job_posting_id)
                      /\ review' = extractInsights(ReviewMounted, r)
          ELSE /\ wizard' = [wizard EXCEPT !.isLoading = FALSE,
                                           !.error = IF rejected THEN FetchError
                                                     ELSE resp]
               /\ UNCHANGED <<review, requestVars>>
  /\ UNCHANGED <<documents, job_postings, job_postings_id_seq, deleteReq>>
  /\ UNCHANGED <<role_insights, genVars, exportReq>>

\* what the agent can answer in this specification
WizardTexts == {<<ValueText(SimplePayload)>>, <<Prose>>}

\* the candidates the vector store can answer with in this specification
WizardCandidates == {<<>>} \cup {<<doc>> : doc \in documents}

\* the extract route serving a request of InsightsReview
WizardExtractPOST(r) ==
  \/ ReceiveFrom(r, {body[r]})
  \/ CheckDocuments(r)
  \/ RetrieverCallFrom(r, WizardCandidates)
  \/ RetrieverReturn(r)
  \/ AgentThrows(r)
  \/ AgentReturnsFrom(r, WizardTexts)
  \/ Insert(r)

\* the fetch of request r resolves or rejects and extractInsights finishes
ReviewSettles(r) ==
  /\ review.pc = "mounted"
  /\ r \in review.inFlight
  /\ pc[r] = "done"
  /\ \E rejected \in BOOLEAN :
       review' = settled(review, r, IF rejected THEN FetchError ELSE response[r])
  /\ UNCHANGED <<documents, job_postings, job_postings_id_seq, ingestReq,
                 deleteReq, wizard>>
  /\ UNCHANGED <<role_insights, requestVars, genVars, exportReq>>

\* the Retry Extraction button
ReviewRetry ==
  /\ review.pc = "mounted"
  /\ RetryAvailable(review)
  /\ MayExtract
  /\ \E r \in Requests :
       /\ FreeSlot(r)
       /\ \A q \in Requests : FreeSlot(q) => r <= q
       /\ FetchExtract(r, wizard.userId, wizard.jobPostingId)
       /\ review' = extractInsights(review, r)
  /\ UNCHANGED <<documents, job_postings, job_postings_id_seq, ingestReq,
                 deleteReq, wizard>>
  /\ UNCHANGED <<role_insights, genVars, exportReq>>

\* the Back / Go Back button of InsightsReview: onBack
ReviewBack ==
  /\ review.pc = "mounted"
  /\ BackAvailable(review)
  /\ wizard' = [wizard EXCEPT !.step = "input", !.isLoading = FALSE,
                              !.error = NoResponse]
  /\ review' = IdleRequest
  /\ UNCHANGED <<documents, job_postings, job_postings_id_seq, ingestReq, deleteReq>>
  /\ UNCHANGED <<role_insights, requestVars, genVars, exportReq>>

\* a Continue handler that hands over the id only
ReviewContinueIdOnly ==
  /\ review.pc = "mounted"
  /\ ContinueAvailable(review)
  /\ wizard' = [wizard EXCEPT !.roleInsightId = review.roleInsightId,
                              !.step = "generate"]
  /\ review' = IdleRequest
  /\ UNCHANGED <<documents, job_postings, job_postings_id_seq, ingestReq, deleteReq>>
  /\ UNCHANGED <<role_insights, requestVars, genVars, exportReq>>

\* the Continue button: onSuccess(roleInsightId, insights)
ReviewContinue ==
  /\ review.pc = "mounted"
  /\ ContinueAvailable(review)
  /\ wizard' = [wizard EXCEPT !.roleInsightId = review.roleInsightId,
                              !.insights = review.insights,
                              !.step = "generate"]
  /\ review' = IdleRequest
  /\ UNCHANGED <<documents, job_postings, job_postings_id_seq, ingestReq, deleteReq>>
  /\ UNCHANGED <<role_insights, requestVars, genVars, exportReq>>

\* the Back button of PersonaGeneration: onBack; InsightsReview mounts
\* again and its effect starts an extraction
GenerationBack ==
  /\ wizard.pc = "mounted"
  /\ wizard.step = "generate"
  /\ wizard.roleInsightId # NullId /\ wizard.insights # NoInsights
  /\ MayExtract
  /\ wizard' = [wizard EXCEPT !.step = "review"]
  /\ \E r \in Requests :
       /\ pc[r] \in {"idle", "done"}
       /\ \A q \in Requests : pc[q] \in {"idle", "done"} => r <= q
       /\ FetchExtract(r, wizard.userId, wizard.jobPostingId)
       /\ review' = extractInsights(ReviewMounted, r)
  /\ UNCHANGED <<documents, job_postings, job_postings_id_seq, ingestReq, deleteReq>>
  /\ UNCHANGED <<role_insights, genVars, exportReq>>

WizardInit ==
  /\ GenIdle
  /\ ExportIdle
  /\ ExtractIdle
  /\ role_insights = <<>>
  /\ documents = {}
  /\ job_postings = <<>>
  /\ job_postings_id_seq = 0
  /\ ingestReq = [i \in Requests |-> IdleRequest]
  /\ deleteReq = [d \in Requests |-> IdleRequest]
  /\ wizard = WizardMounted
  /\ review = IdleRequest

\* the routes' steps
WizardServes ==
  \/ WizardIngestPOST
  \/ \E r \in Requests : WizardExtractPOST(r)

\* the steps that end agent.invoke
AgentEnds == \E r \in Requests : AgentThrows(r) \/ AgentReturnsFrom(r, WizardTexts)

\* a pending fetch of InsightsReview settles
FetchSettles == \E r \in Requests : ReviewSettles(r)

WizardNext ==
  \/ SubmitJobPosting
  \/ WizardServes
  \/ IngestSettles
  \/ FetchSettles
  \/ ReviewRetry
  \/ ReviewBack
  \/ ReviewContinue
  \/ GenerationBack

\* the routes keep running, agent.invoke ends, and a fetch whose response is
\* ready settles
WizardSpec ==
  /\ WizardInit
  /\ [][WizardNext]_vars
  /\ WF_vars(WizardServes)
  /\ WF_vars(AgentEnds)
  /\ WF_vars(FetchSettles)

\* the chunks request i stored
StoredBy(i) == Range(ingestReq[i].stored)

\* C25: every chunk stored by an ingest request carries metadata.user_id
\* equal to the request's user_id and metadata.job_posting_id equal to the
\* id of the job_postings row the same request created, for every value of
\* the caller's metadata object; chunkIndex runs over 0..n-1 and totalChunks
\* is n, the chunks_created of the response.
C25_Original ==
  \A i \in Requests :
    (ingestReq[i].pc = "done" /\ ingestReq[i].response.status = 200) =>
      LET req == ingestReq[i]
          n == req.response.chunks_created
      IN /\ Len(req.stored) = n
         /\ \A k \in 1..n :
              /\ req.stored[k].metadata.user_id = req.body.user_id
              /\ req.stored[k].metadata.job_posting_id = req.response.job_posting_id
              /\ req.stored[k].metadata.chunkIndex = k - 1
              /\ req.stored[k].metadata.totalChunks = n

\* C28: an ingest request that ends with an error response leaves no
\* job_postings row and no chunk created by that request in storage.
C28_Original ==
  \A i \in Requests :
    (ingestReq[i].pc = "done" /\ ingestReq[i].response.status # 200) =>
      /\ \A n \in 1..Len(job_postings) : job_postings[n].id # ingestReq[i].jobPostingId
      /\ StoredBy(i) \cap documents = {}

\* C29: a DELETE for user u that returns success leaves no chunk tagged
\* with u and no job_postings row of u and removes nothing of another user;
\* a DELETE that returns an error leaves the data of u unchanged.
C29_Original ==
  \A d \in Requests :
    deleteReq[d].pc = "done" =>
      LET u == deleteReq[d].user_id
          before == deleteReq[d].before
      IN /\ deleteReq[d].response.status = 200 =>
              /\ \A doc \in documents : doc.metadata.user_id # u
              /\ \A n \in 1..Len(job_postings) : job_postings[n].user_id # u
              /\ \A doc \in before.documents :
                   doc.metadata.user_id # u => doc \in documents
              /\ \A n \in 1..Len(before.job_postings) :
                   before.job_postings[n].user_id # u
                     => before.job_postings[n] \in Range(job_postings)
         /\ deleteReq[d].response.status # 200 =>
              /\ \A doc \in before.documents :
                   doc.metadata.user_id = u => doc \in documents
              /\ \A n \in 1..Len(before.job_postings) :
                   before.job_postings[n].user_id = u
                     => before.job_postings[n] \in Range(job_postings)

(***************************************************************************)
(* The wizard's steps and the review component's requests                  *)
(***************************************************************************)
\* C27: after any sequence of submit, continue, back and retry actions the
\* step is review only if a job posting id is held, the step is generate
\* only if a role insight id and insights are held, and the pair handed to
\* the generate step is the id and the insights of one single extraction
\* response, the most recent successful one.
C27_WizardSteps ==
  /\ wizard.step = "review" => wizard.jobPostingId # NullId
  /\ wizard.step = "generate" =>
       /\ wizard.roleInsightId # NullId
       /\ wizard.insights # NoInsights
       /\ Len(role_insights) >= 1
       /\ LET row == role_insights[Len(role_insights)]
          IN /\ row.id = wizard.roleInsightId
             /\ row.insights = wizard.insights

\* the generate step is reached a second time, with the pair of the second
\* extraction, whose insights differ from the first's
C27_Witness ==
  /\ wizard.step = "generate"
  /\ Len(role_insights) = 2
  /\ role_insights[1].insights # role_insights[2].insights
  /\ wizard.roleInsightId = 2
  /\ wizard.insights = role_insights[2].insights

C30_State ==
  review.pc = "mounted" =>
    /\ Cardinality(review.inFlight) <= 1
    /\ review.inFlight # {} => review.isExtracting
    /\ review.isExtracting =>
         (~RetryAvailable(review) /\ ~ContinueAvailable(review))

\* a request is added only by the mount or by Retry
C30_Step ==
  (review'.pc = "mounted" /\ review'.inFlight # {}
     /\ (review.pc = "mounted" => review'.inFlight \ review.inFlight # {}))
    => (review.pc # "mounted" \/ RetryAvailable(review))

\* C30: for one mounted InsightsReview at most one extraction request is in
\* flight at any time; a request starts only on mount or from the Retry
\* button; Retry and Continue are not available while isExtracting is true;
\* and every started request eventually sets isExtracting back to false.
C30_OneRequestInFlight ==
  /\ []C30_State
  /\ [][C30_Step]_vars
  /\ (review.pc = "mounted" /\ review.inFlight # {})
       ~> (review.pc # "mounted" \/ ~review.isExtracting)

\* a request started by Retry is in flight: the response of the first
\* request, which stored its row, was lost
C30_Witness ==
  /\ review.pc = "mounted"
  /\ review.inFlight = {1}
  /\ review.isExtracting
  /\ wizard.roleInsightId = NullId
  /\ Len(role_insights) = 1
  /\ pc[1] = "agent"

====
